---- MODULE Spec2Model ----
(***************************************************************************)
(* A model of the bunpaas request dispatcher: the router pipeline          *)
(* (lib/router.js), the redirect engine (lib/redirects.js), the static     *)
(* resolver (lib/static.js), the function dispatcher (lib/functions.js)    *)
(* and the Basic-auth middleware (lib/middleware/auth.js).                 *)
(*                                                                         *)
(* JavaScript strings are modelled as sequences of one-character strings,  *)
(* so that startsWith, slice, split, replace, the blocked-path regular     *)
(* expressions, path.join and path.extname are computed character by       *)
(* character as the runtime computes them.                                 *)
(***************************************************************************)
EXTENDS Integers, Sequences, FiniteSets, TLC

\* ------------------------------------------------------------------------
\* Bounds of the model
\* ------------------------------------------------------------------------

\* Longest _redirects file explored by SpecRedirect, in lines.
MaxRuleLines == 3

\* Requests that may be in flight at once in SpecFn.
MaxInFlight == 2

\* The most files a deployment under test holds.
MaxFiles == 4

\* Subscriber streams opened in one behaviour of the channel hub.
MaxStreams == 3

\* Writes (publish calls and heartbeat ticks that reach a sink) in one
\* behaviour of the channel hub.
MaxMessages == 1

\* BUNPAAS_MAX_CHANNEL_SUBSCRIBERS as configured for the hub under test
\* (500 when the variable is unset).
MAX_SUBSCRIBERS_PER_CHANNEL == 2

\* Calls into lib/sites.js that may be in flight at once.
MaxTasks == 2

\* Calls into lib/sites.js started in one behaviour.
MaxCalls == 2

\* Changes made to a file from outside the process in one behaviour.
MaxEdits == 1

\* Entries passed to logRequest and logDeploy in one behaviour.
MaxEntries == 3

\* ------------------------------------------------------------------------
\* Program constants
\* ------------------------------------------------------------------------

\* const FUNCTION_TIMEOUT = 60000 (ms)
FUNCTION_TIMEOUT == 60000

\* The step (ms) by which the model lets time pass.
Quantum == 20000

\* const REQUEST_FLUSH_INTERVAL = 10000 (ms)
REQUEST_FLUSH_INTERVAL == 10000

\* const MAX_REQUEST_LOGS = 20
MAX_REQUEST_LOGS == 20

\* const DEPLOY_FLUSH_INTERVAL = 5000 (ms)
DEPLOY_FLUSH_INTERVAL == 5000

\* const MAX_DEPLOY_LOGS = 50
MAX_DEPLOY_LOGS == 50

\* ------------------------------------------------------------------------
\* JavaScript string primitives
\* ------------------------------------------------------------------------

\* s.startsWith(p)
StartsWith(s, p) == Len(s) >= Len(p) /\ SubSeq(s, 1, Len(p)) = p

\* s.endsWith(p)
EndsWith(s, p) == Len(s) >= Len(p) /\ SubSeq(s, Len(s) - Len(p) + 1, Len(s)) = p

\* s.slice(n) for 0 <= n (empty when n >= s.length)
Slice(s, n) == SubSeq(s, n + 1, Len(s))

\* s.slice(0, -n)
DropLast(s, n) == SubSeq(s, 1, Len(s) - n)

\* s.indexOf(p) as a 1-based position, 0 when p does not occur in s
IndexOf(s, p) ==
  LET hits == {i \in 1..(Len(s) - Len(p) + 1) : SubSeq(s, i, i + Len(p) - 1) = p}
  IN IF hits = {} THEN 0 ELSE CHOOSE i \in hits : \A j \in hits : i <= j

\* s.lastIndexOf(c) for a character c, 1-based, 0 when absent
LastIndexOfChar(s, c) ==
  LET hits == {i \in 1..Len(s) : s[i] = c}
  IN IF hits = {} THEN 0 ELSE CHOOSE i \in hits : \A j \in hits : i >= j

\* The characters String.prototype.trim removes and /\s+/ matches
\* (those that occur in the modelled files).
Whitespace == {" ", "\t", "\r"}

\* s.trim()
RECURSIVE TrimStart(_)
TrimStart(s) ==
  IF s # <<>> /\ Head(s) \in Whitespace THEN TrimStart(Tail(s)) ELSE s

RECURSIVE TrimEnd(_)
TrimEnd(s) ==
  IF s # <<>> /\ s[Len(s)] \in Whitespace THEN TrimEnd(DropLast(s, 1)) ELSE s

Trim(s) == TrimEnd(TrimStart(s))

\* s.split(/\s+/): the pieces between maximal runs of whitespace.  As in
\* JavaScript, a leading or trailing run yields an empty first or last piece.
RECURSIVE SplitWs(_, _, _)
SplitWs(s, cur, inRun) ==
  IF s = <<>> THEN <<cur>>
  ELSE IF Head(s) \in Whitespace
       THEN IF inRun THEN SplitWs(Tail(s), cur, TRUE)
            ELSE <<cur>> \o SplitWs(Tail(s), <<>>, TRUE)
       ELSE SplitWs(Tail(s), Append(cur, Head(s)), FALSE)

SplitWhitespace(s) == SplitWs(s, <<>>, FALSE)

\* s.split(c) for a one-character separator: the pieces between separators,
\* empty pieces kept.
RECURSIVE SplitAcc(_, _, _)
SplitAcc(s, c, cur) ==
  IF s = <<>> THEN <<cur>>
  ELSE IF Head(s) = c THEN <<cur>> \o SplitAcc(Tail(s), c, <<>>)
       ELSE SplitAcc(Tail(s), c, Append(cur, Head(s)))

SplitSlash(s) == SplitAcc(s, "/", <<>>)

SplitColon(s) == SplitAcc(s, ":", <<>>)

\* segs.join("/")
RECURSIVE JoinSlash(_)
JoinSlash(segs) ==
  IF segs = <<>> THEN <<>>
  ELSE IF Len(segs) = 1 THEN segs[1]
       ELSE segs[1] \o <<"/">> \o JoinSlash(Tail(segs))

\* arr.filter(Boolean) on an array of strings: the non-empty ones.
RECURSIVE FilterNonEmpty(_)
FilterNonEmpty(segs) ==
  IF segs = <<>> THEN <<>>
  ELSE IF Head(segs) = <<>> THEN FilterNonEmpty(Tail(segs))
       ELSE <<Head(segs)>> \o FilterNonEmpty(Tail(segs))

Digits == {"0", "1", "2", "3", "4", "5", "6", "7", "8", "9"}

DigitValue(c) ==
  CASE c = "0" -> 0 [] c = "1" -> 1 [] c = "2" -> 2 [] c = "3" -> 3
    [] c = "4" -> 4 [] c = "5" -> 5 [] c = "6" -> 6 [] c = "7" -> 7
    [] c = "8" -> 8 [] c = "9" -> 9

\* parseInt(s) for an unsigned token: the value of its leading digits.  NaN
\* (no leading digit, or s undefined) is returned as 0: the only use is
\* `parseInt(statusStr) || 301`, where NaN and 0 are both falsy.
RECURSIVE ParseIntAcc(_, _)
ParseIntAcc(s, acc) ==
  IF s = <<>> \/ Head(s) \notin Digits THEN acc
  ELSE ParseIntAcc(Tail(s), 10 * acc + DigitValue(Head(s)))

ParseInt(s) == ParseIntAcc(s, 0)

\* The replacement-pattern expansion of String.prototype.replace(string,
\* string): in the replacement, $$ is a dollar sign, $& the matched text,
\* $` the text before the match and $' the text after it.
RECURSIVE ExpandReplacement(_, _, _, _)
ExpandReplacement(rep, matched, before, after) ==
  IF rep = <<>> THEN <<>>
  ELSE IF Head(rep) = "$" /\ Len(rep) >= 2 /\ rep[2] \in {"$", "&", "`", "'"}
       THEN (CASE rep[2] = "$" -> <<"$">>
               [] rep[2] = "&" -> matched
               [] rep[2] = "`" -> before
               [] rep[2] = "'" -> after)
            \o ExpandReplacement(Slice(rep, 2), matched, before, after)
       ELSE <<Head(rep)>> \o ExpandReplacement(Tail(rep), matched, before, after)

\* s.replace(pat, rep) with a string pattern: the first occurrence only.
ReplaceFirst(s, pat, rep) ==
  LET i == IndexOf(s, pat)
  IN IF i = 0 THEN s
     ELSE LET before == SubSeq(s, 1, i - 1)
              after == Slice(s, i + Len(pat) - 1)
          IN before \o ExpandReplacement(rep, pat, before, after) \o after

\* ------------------------------------------------------------------------
\* path.join, path.extname (POSIX) and URL parsing
\* ------------------------------------------------------------------------

\* The segment walk of path.normalize: "" and "." are dropped and ".."
\* removes the segment before it; above the root of an absolute path ".."
\* is dropped, in a relative path it is kept.
RECURSIVE NormalizeSegs(_, _, _)
NormalizeSegs(segs, acc, absolute) ==
  IF segs = <<>> THEN acc
  ELSE LET seg == Head(segs)
           rest == Tail(segs)
       IN IF seg = <<>> \/ seg = <<".">> THEN NormalizeSegs(rest, acc, absolute)
          ELSE IF seg = <<".", ".">>
               THEN IF acc # <<>> /\ acc[Len(acc)] # <<".", ".">>
                    THEN NormalizeSegs(rest, DropLast(acc, 1), absolute)
                    ELSE IF absolute THEN NormalizeSegs(rest, acc, absolute)
                         ELSE NormalizeSegs(rest, Append(acc, seg), absolute)
               ELSE NormalizeSegs(rest, Append(acc, seg), absolute)

\* path.normalize(p): a trailing slash is preserved.
PathNormalize(p) ==
  LET absolute == StartsWith(p, <<"/">>)
      trailing == EndsWith(p, <<"/">>)
      body == JoinSlash(NormalizeSegs(SplitSlash(p), <<>>, absolute))
      withDot == IF body = <<>> /\ ~absolute THEN <<".">> ELSE body
      withTrail == IF body # <<>> /\ trailing THEN withDot \o <<"/">> ELSE withDot
  IN IF absolute THEN <<"/">> \o withTrail ELSE withTrail

\* path.join(...parts): the non-empty parts joined by "/", then normalized.
PathJoin(parts) ==
  LET kept == FilterNonEmpty(parts)
  IN IF kept = <<>> THEN <<".">> ELSE PathNormalize(JoinSlash(kept))

\* The last path component path.extname looks at: trailing slashes are
\* skipped, then everything after the previous slash.
RECURSIVE StripTrailingSlashes(_)
StripTrailingSlashes(p) ==
  IF p # <<>> /\ p[Len(p)] = "/" THEN StripTrailingSlashes(DropLast(p, 1)) ELSE p

BaseName(p) ==
  LET q == StripTrailingSlashes(p)
  IN Slice(q, LastIndexOfChar(q, "/"))

\* path.extname(p): from the last "." of the last component to its end;
\* empty when there is no ".", when the only "." is the component's first
\* character (a dotfile), and for "..".
PathExtname(p) ==
  LET base == BaseName(p)
      d == LastIndexOfChar(base, ".")
  IN IF d = 0 \/ d = 1 \/ base = <<".", ".">> THEN <<>>
     ELSE SubSeq(base, d, Len(base))

SingleDot == {<<".">>, <<"%", "2", "e">>, <<"%", "2", "E">>}
DoubleDot == {<<".", ".">>, <<".", "%", "2", "e">>, <<"%", "2", "e", ".">>,
              <<"%", "2", "e", "%", "2", "e">>}

\* The path state of the URL parser for an http(s) URL: a "." segment is
\* dropped and a ".." segment removes the segment before it (never above the
\* root); either one as the last segment leaves a trailing slash.  Empty
\* segments are kept, so "//a" stays "//a".
RECURSIVE UrlPathSegs(_, _)
UrlPathSegs(segs, acc) ==
  IF segs = <<>> THEN acc
  ELSE LET seg == Head(segs)
           rest == Tail(segs)
           last == rest = <<>>
       IN IF seg \in DoubleDot
          THEN LET popped == IF acc = <<>> THEN acc ELSE DropLast(acc, 1)
               IN UrlPathSegs(rest, IF last THEN Append(popped, <<>>) ELSE popped)
          ELSE IF seg \in SingleDot
               THEN UrlPathSegs(rest, IF last THEN Append(acc, <<>>) ELSE acc)
               ELSE UrlPathSegs(rest, Append(acc, seg))

\* The request target taken as it was sent, dot segments included: what
\* the containment of C6 must tell apart from UrlPathname.
RawPathname(target) == target

\* new URL(req.url).pathname for the request target `target` (which starts
\* with "/").
UrlPathname(target) ==
  <<"/">> \o JoinSlash(UrlPathSegs(SplitSlash(Slice(target, 1)), <<>>))

RECURSIVE SkipSlashes(_)
SkipSlashes(s) ==
  IF s # <<>> /\ Head(s) = "/" THEN SkipSlashes(Tail(s)) ELSE s

\* The part of s before the first character of `stops`, or all of s.
RECURSIVE TakeUntil(_, _)
TakeUntil(s, stops) ==
  IF s = <<>> \/ Head(s) \in stops THEN <<>>
  ELSE <<Head(s)>> \o TakeUntil(Tail(s), stops)

\* new URL(ref, origin) for a reference that starts with "/" and an http(s)
\* origin with host `host`.  A reference starting with "//" is
\* scheme-relative: the slashes are skipped and what follows, up to the next
\* "/" or "?", is the host of the result; an empty host is a TypeError.
\* Otherwise the reference is a path (and query) on `host`.
UrlResolve(ref, host) ==
  IF StartsWith(ref, <<"/", "/">>)
  THEN LET auth == SkipSlashes(ref)
           h == TakeUntil(auth, {"/", "?"})
           after == Slice(auth, Len(h))
           p == TakeUntil(after, {"?"})
       IN [ok |-> h # <<>>,
           host |-> h,
           path |-> IF p = <<>> THEN <<"/">> ELSE UrlPathname(p),
           search |-> Slice(after, Len(p))]
  ELSE LET p == TakeUntil(ref, {"?"})
       IN [ok |-> TRUE,
           host |-> host,
           path |-> UrlPathname(p),
           search |-> Slice(ref, Len(p))]

\* ------------------------------------------------------------------------
\* State
\* ------------------------------------------------------------------------

VARIABLES
  sites,          \* sites.json: host -> [enabled, env]
  siteConfig,     \* site.json of each site's active deployment: host -> config
  files,          \* regular files of the active deployment, as paths below sitePath
  redirectsFile,  \* the deployment's _redirects: [exists, lines]
  req,            \* per activation: the request being handled
  pc,             \* per activation: the stage handleRequest has reached
  resp,           \* per activation: the response produced (Null: none yet)
  did,            \* per activation: the stages that have acted for this request
  probes,         \* per activation: the paths serveStatic asked the filesystem about
  route,          \* per activation: what findFunctionFile returned
  race,           \* per activation: state of the Promise.race of executeWithTimeout
  handler,        \* per activation: state of the tenant handler's promise
  timer,          \* per activation: ms left on the setTimeout of executeWithTimeout, -1: none
  waited,         \* per activation: ms since the handler was invoked
  channels,       \* lib/channels.js: channel -> set of subscribers (the Map's entries)
  streams,        \* per subscriber stream: [state, channel, queue, heartbeat]
  hub,            \* the last call into the channel hub and what it returned
  sent,           \* writes attempted by publish and heartbeat so far
  isDev,          \* lib/config.js: NODE_ENV === "development"
  fsys,           \* sites.json, sites.json.tmp and site.json: [exists, text, mtime, writers]
  sitesCache,     \* lib/sites.js: the cached registry object (0: null)
  sitesCacheMtime, \* lib/sites.js: the mtime the cache was loaded at
  objs,           \* the registry objects in memory, by address
  siteConfigCache, \* lib/sites.js: the Map entry of the one sitePath
  task,           \* per call into lib/sites.js: where it is and what it holds
  extern,         \* per file: the last change made from outside the process
  clock,          \* the newest mtime on disk
  calls,          \* calls into lib/sites.js started so far
  logs,           \* lib/logs.js: per buffer, the Map host -> entries
  flushTimer,     \* lib/logs.js: per buffer, the handle of its timer (0: null)
  timeouts,       \* the setTimeout calls of lib/logs.js that are pending
  now,            \* ms since the server started
  logFile,        \* per buffer and host: the log file [exists, complete, list, flushed]
  flush,          \* per flusher: where its flush is and what it holds
  logged,         \* the entries logged so far: [kind, host, at]
  logOp,          \* the last step of lib/logs.js
  functionPathCache, \* lib/functions.js: the Map cacheKey -> route (or null)
  lookup,         \* per call of findFunctionFile: where it is and what it holds
  pathOp          \* calls, deployments and clearings of the route cache so far

vars == <<sites, siteConfig, files, redirectsFile, req, pc, resp, did, probes,
          route, race, handler, timer, waited, channels, streams, hub, sent,
          isDev, fsys, sitesCache, sitesCacheMtime, objs, siteConfigCache, task,
          extern, clock, calls, logs, flushTimer, timeouts, now, logFile, flush,
          logged, logOp, functionPathCache, lookup, pathOp>>

\* What is on disk.
diskVars == <<sites, siteConfig, files, redirectsFile>>

\* The channel hub.
hubVars == <<channels, streams, hub, sent>>

\* The site registry and the deployment config cache.
regVars == <<isDev, fsys, sitesCache, sitesCacheMtime, objs, siteConfigCache, task,
             extern, clock, calls>>

\* The route cache of findFunctionFile.
pathVars == <<functionPathCache, lookup, pathOp>>

\* The log buffers, their timers and their files.
logVars == <<logs, flushTimer, timeouts, now, logFile, flush, logged, logOp>>

\* What the channel hub leaves alone beside the router's state.
storeVars == <<regVars, logVars, pathVars>>

\* What no stage of handleRequest changes.
envVars == <<diskVars, hubVars, storeVars>>

fnVars == <<route, race, handler, timer, waited>>

Slots == 1..MaxInFlight

\* A Response: status, the stage that built it, the Location header (empty:
\* none), the file streamed as body (empty: none) and the header set.
Response(status, by, location, file, headers) ==
  [status |-> status, by |-> by, location |-> location, file |-> file,
   headers |-> headers]

\* JavaScript null where a Response is expected.
Null == Response(0, "null", <<>>, <<>>, {})

\* ------------------------------------------------------------------------
\* Redirect engine (lib/redirects.js)
\* ------------------------------------------------------------------------

\* One line of _redirects: the rules it contributes (none or one).
ParseRedirectLine(line) ==
  LET trimmed == Trim(line)
      parts == SplitWhitespace(trimmed)
      parsed == IF Len(parts) >= 3 THEN ParseInt(parts[3]) ELSE 0
  IN IF trimmed = <<>> \/ StartsWith(trimmed, <<"#">>) THEN <<>>
     ELSE IF Len(parts) < 2 THEN <<>>
          ELSE <<[from |-> parts[1], to |-> parts[2],
                  status |-> IF parsed = 0 THEN 301 ELSE parsed]>>

RECURSIVE ParseRedirectLines(_)
ParseRedirectLines(lines) ==
  IF lines = <<>> THEN <<>>
  ELSE ParseRedirectLine(Head(lines)) \o ParseRedirectLines(Tail(lines))

\* loadRedirects: no file, no rules.
loadRedirects(file) ==
  IF ~file.exists THEN <<>> ELSE ParseRedirectLines(file.lines)

Splat == <<":", "s", "p", "l", "a", "t">>

\* The destination of a wildcard rule: to.replace(":splat", splat).
SplatDestination(to, splat) == ReplaceFirst(to, Splat, splat)

\* A loop in which a later matching rule overrides an earlier one: what
\* first-rule-wins (C8) must tell apart from MatchRedirects.
RECURSIVE MatchRedirectsLast(_, _)
MatchRedirectsLast(rules, reqPath) ==
  IF rules = <<>> THEN Null
  ELSE LET rule == rules[Len(rules)]
           prefix == DropLast(rule.from, 2)
       IN IF rule.from = reqPath
          THEN Response(rule.status, "redirects", rule.to, <<>>, {})
          ELSE IF /\ EndsWith(rule.from, <<"/", "*">>)
                  /\ \/ StartsWith(reqPath, prefix \o <<"/">>)
                     \/ reqPath = prefix
               THEN Response(rule.status, "redirects",
                             SplatDestination(rule.to, Slice(reqPath, Len(prefix) + 1)),
                             <<>>, {})
               ELSE MatchRedirectsLast(SubSeq(rules, 1, Len(rules) - 1), reqPath)

\* The loop of handleRedirects over the rules, in order.
RECURSIVE MatchRedirects(_, _)
MatchRedirects(rules, reqPath) ==
  IF rules = <<>> THEN Null
  ELSE LET rule == Head(rules)
           prefix == DropLast(rule.from, 2)
       IN IF rule.from = reqPath
          THEN Response(rule.status, "redirects", rule.to, <<>>, {})
          ELSE IF /\ EndsWith(rule.from, <<"/", "*">>)
                  /\ \/ StartsWith(reqPath, prefix \o <<"/">>)
                     \/ reqPath = prefix
               THEN Response(rule.status, "redirects",
                             SplatDestination(rule.to, Slice(reqPath, Len(prefix) + 1)),
                             <<>>, {})
               ELSE MatchRedirects(Tail(rules), reqPath)

handleRedirects(file, reqPath) == MatchRedirects(loadRedirects(file), reqPath)

\* ------------------------------------------------------------------------
\* The deployment on disk
\* ------------------------------------------------------------------------

\* options.dataDir (DATA_DIR): an absolute directory.
DataDir == <<"/", "d">>

\* path.join(dataDir, "sites", host, "current")
SitePath(host) ==
  PathJoin(<<DataDir, <<"s", "i", "t", "e", "s">>, host,
             <<"c", "u", "r", "r", "e", "n", "t">>>>)

\* The sitePath every modelled deployment is served from when a resolver is
\* called directly.
Root == SitePath(<<"a", ".", "t">>)

\* Whether `p`, with any trailing slash removed, names a directory: the
\* site root itself or a directory on the way to one of its files.
IsDirectoryIn(fs, sitePath, p) ==
  LET q == StripTrailingSlashes(p)
      rel == Slice(q, Len(sitePath))
  IN /\ StartsWith(q, sitePath)
     /\ \/ rel = <<>>
        \/ /\ Head(rel) = "/"
           /\ \E f \in fs : StartsWith(f, rel \o <<"/">>)

\* Bun.file(p).exists(): true for a regular file, false for a directory, a
\* missing path and a path with a trailing slash.
FileExistsIn(fs, sitePath, p) ==
  /\ StartsWith(p, sitePath \o <<"/">>)
  /\ Slice(p, Len(sitePath)) \in fs

\* ------------------------------------------------------------------------
\* Static resolver (lib/static.js)
\* ------------------------------------------------------------------------

\* A check that blocks nothing: what the blocked-path guarantee (C4) must
\* tell apart from isBlockedPath.
BlocksNothing(reqPath) == FALSE

\* BLOCKED_PATTERNS, one disjunct per regular expression.
isBlockedPath(reqPath) ==
  \/ StartsWith(reqPath, <<"/", "_">>)
  \/ reqPath = <<"/", "s", "i", "t", "e", ".", "j", "s", "o", "n">>
  \/ reqPath = <<"/", "p", "a", "c", "k", "a", "g", "e", ".", "j", "s", "o", "n">>
  \/ StartsWith(reqPath, <<"/", "n", "o", "d", "e", "_", "m", "o", "d", "u", "l", "e", "s">>)
  \/ reqPath = <<"/", ".", "b", "u", "n", "p", "a", "a", "s">>
  \/ StartsWith(reqPath, <<"/", ".", "g", "i", "t">>)
  \/ StartsWith(reqPath, <<"/", ".", "e", "n", "v">>)

IndexHtml == <<"i", "n", "d", "e", "x", ".", "h", "t", "m", "l">>
DotHtml == <<".", "h", "t", "m", "l">>

\* The candidates with the .html file tried before the directory index:
\* what the precedence of C7 must tell apart from StaticCandidates.
HtmlBeforeIndex(sitePath, reqPath) ==
  LET filePath == PathJoin(<<sitePath, reqPath>>)
      indexPath == PathJoin(<<filePath, <<"i", "n", "d", "e", "x", ".", "h", "t", "m", "l">>>>)
      htmlPath == PathJoin(<<sitePath, reqPath \o <<".", "h", "t", "m", "l">>>>)
  IN IF ~EndsWith(reqPath, <<"/">>) /\ PathExtname(reqPath) = <<>>
     THEN <<filePath, htmlPath, indexPath>>
     ELSE <<filePath, indexPath>>

\* The paths serveStatic hands to tryServeFile, in the order it tries them:
\* the file, its index.html, and for a path without extension and trailing
\* slash the index.html again and then the .html file.
StaticCandidates(sitePath, reqPath) ==
  LET filePath == PathJoin(<<sitePath, reqPath>>)
      indexPath == PathJoin(<<filePath, IndexHtml>>)
      prettyIndexPath == PathJoin(<<sitePath, reqPath, IndexHtml>>)
      htmlPath == PathJoin(<<sitePath, reqPath \o DotHtml>>)
  IN <<filePath, indexPath>>
     \o (IF ~EndsWith(reqPath, <<"/">>) /\ PathExtname(reqPath) = <<>>
         THEN <<prettyIndexPath, htmlPath>>
         ELSE <<>>)

\* tryServeFile: a Response for an existing regular file, else null.
tryServeFile(fs, sitePath, filePath) ==
  IF ~FileExistsIn(fs, sitePath, filePath) THEN Null
  ELSE IF IsDirectoryIn(fs, sitePath, filePath) THEN Null
       ELSE Response(200, "static", <<>>, filePath, {})

\* The position in the candidate list of the first one tryServeFile serves,
\* 0 when none is.
FirstServed(fs, sitePath, cands) ==
  LET hits == {i \in 1..Len(cands) : tryServeFile(fs, sitePath, cands[i]) # Null}
  IN IF hits = {} THEN 0 ELSE CHOOSE i \in hits : \A j \in hits : i <= j

\* serveStatic(ctx): the Response (or null) and the paths it asked the
\* filesystem about on the way.
serveStatic(fs, sitePath, reqPath) ==
  IF isBlockedPath(reqPath) THEN [response |-> Null, probed |-> {}]
  ELSE LET cands == StaticCandidates(sitePath, reqPath)
           hit == FirstServed(fs, sitePath, cands)
       IN IF hit = 0
          THEN [response |-> Null, probed |-> {cands[i] : i \in 1..Len(cands)}]
          ELSE [response |-> tryServeFile(fs, sitePath, cands[hit]),
                probed |-> {cands[i] : i \in 1..hit}]

\* serveError(sitePath, 404, "Not Found"): the custom page when it exists.
serveError(fs, sitePath, status) ==
  LET errorFile == PathJoin(<<sitePath, <<"4", "0", "4">> \o DotHtml>>)
  IN IF FileExistsIn(fs, sitePath, errorFile)
     THEN Response(status, "error", <<>>, errorFile, {})
     ELSE Response(status, "error", <<>>, <<>>, {})

\* ------------------------------------------------------------------------
\* Function dispatcher: route resolution (lib/functions.js)
\* ------------------------------------------------------------------------

DotJs == <<".", "j", "s">>
IndexJs == <<"i", "n", "d", "e", "x", ".", "j", "s">>
FunctionsDirName == <<"_", "f", "u", "n", "c", "t", "i", "o", "n", "s">>

\* The characters \w matches.
WordChars ==
  {"a", "b", "c", "d", "e", "f", "g", "h", "i", "j", "k", "l", "m", "n", "o",
   "p", "q", "r", "s", "t", "u", "v", "w", "x", "y", "z", "_"} \cup Digits

\* name.match(/^\[(\w+)\]$/): the captured parameter name, empty when the
\* entry name is not a bracketed directory name.
BracketDirParam(name) ==
  IF /\ Len(name) >= 3
     /\ name[1] = "["
     /\ name[Len(name)] = "]"
     /\ \A i \in 2..(Len(name) - 1) : name[i] \in WordChars
  THEN SubSeq(name, 2, Len(name) - 1)
  ELSE <<>>

\* name.match(/^\[(\w+)\]\.js$/)
BracketFileParam(name) ==
  IF EndsWith(name, DotJs) THEN BracketDirParam(DropLast(name, 3)) ELSE <<>>

\* { ...params, [name]: value }
WithParam(params, name, value) ==
  [n \in (DOMAIN params) \cup {name} |-> IF n = name THEN value ELSE params[n]]

\* What findFunctionFile returns: null, or { path, params }.
NoRoute == [found |-> FALSE, path |-> <<>>, params |-> <<>>]
Found(path, params) == [found |-> TRUE, path |-> path, params |-> params]

\* The names of the entries of directory `dir` (files and directories).
ChildNames(fs, sitePath, dir) ==
  LET rel == Slice(dir, Len(sitePath)) \o <<"/">>
  IN IF ~StartsWith(dir, sitePath) THEN {}
     ELSE {TakeUntil(Slice(f, Len(rel)), {"/"}) : f \in {g \in fs : StartsWith(g, rel)}}

\* new Bun.Glob("*").scan({ cwd: baseDir }): the entries of baseDir.  The
\* scan yields them in directory order, which the program does not control;
\* `order` lists every name in the order this scan happens to use.
ScanDir(fs, sitePath, baseDir, order) ==
  SelectSeq(order, LAMBDA n : n \in ChildNames(fs, sitePath, baseDir))

RECURSIVE findDynamicRoute(_, _, _, _, _, _)
RECURSIVE ScanEntries(_, _, _, _, _, _, _)

\* The `for (const name of entries)` loop of findDynamicRoute.
ScanEntries(fs, sitePath, baseDir, entries, segments, params, order) ==
  IF entries = <<>> THEN NoRoute
  ELSE
    LET name == Head(entries)
        current == Head(segments)
        rest == Tail(segments)
        fullPath == PathJoin(<<baseDir, name>>)
        isDir == IsDirectoryIn(fs, sitePath, fullPath)
        dirParam == BracketDirParam(name)
        fileParam == BracketFileParam(name)
        newParams == WithParam(params, dirParam, current)
        viaDir ==
          IF dirParam # <<>> /\ isDir
          THEN IF rest = <<>>
               THEN LET indexPath == PathJoin(<<fullPath, IndexJs>>)
                    IN IF FileExistsIn(fs, sitePath, indexPath)
                       THEN Found(indexPath, newParams) ELSE NoRoute
               ELSE LET directFile == PathJoin(<<fullPath>> \o rest) \o DotJs
                    IN IF FileExistsIn(fs, sitePath, directFile)
                       THEN Found(directFile, newParams)
                       ELSE findDynamicRoute(fs, sitePath, fullPath, rest, newParams, order)
          ELSE NoRoute
    IN IF viaDir.found THEN viaDir
       ELSE IF fileParam # <<>> /\ ~isDir /\ rest = <<>>
            THEN Found(fullPath, WithParam(params, fileParam, current))
            ELSE ScanEntries(fs, sitePath, baseDir, Tail(entries), segments, params, order)

\* A search that goes straight to the bracketed entries, without trying the
\* exactly named directory first: what the precedence of C5 must tell apart
\* from findDynamicRoute.
ScanOnly(fs, sitePath, baseDir, segments, params, order) ==
  IF segments = <<>> THEN NoRoute
  ELSE ScanEntries(fs, sitePath, baseDir,
                   ScanDir(fs, sitePath, baseDir, order), segments, params, order)

\* findDynamicRoute(baseDir, segments, params)
findDynamicRoute(fs, sitePath, baseDir, segments, params, order) ==
  IF segments = <<>> THEN NoRoute
  ELSE
    LET current == Head(segments)
        rest == Tail(segments)
        exactDir == PathJoin(<<baseDir, current>>)
        viaExact ==
          IF IsDirectoryIn(fs, sitePath, exactDir)
          THEN IF rest = <<>>
               THEN LET indexPath == PathJoin(<<exactDir, IndexJs>>)
                    IN IF FileExistsIn(fs, sitePath, indexPath)
                       THEN Found(indexPath, params) ELSE NoRoute
               ELSE LET directFile == PathJoin(<<exactDir>> \o rest) \o DotJs
                    IN IF FileExistsIn(fs, sitePath, directFile)
                       THEN Found(directFile, params)
                       ELSE findDynamicRoute(fs, sitePath, exactDir, rest, params, order)
          ELSE NoRoute
    IN IF viaExact.found THEN viaExact
       ELSE ScanEntries(fs, sitePath, baseDir,
                        ScanDir(fs, sitePath, baseDir, order), segments, params, order)

\* reqPath.replace(/^\//, "").split("/").filter(Boolean), "index" when empty
RouteSegments(reqPath) ==
  LET stripped == IF StartsWith(reqPath, <<"/">>) THEN Slice(reqPath, 1) ELSE reqPath
      segs == FilterNonEmpty(SplitSlash(stripped))
  IN IF segs = <<>> THEN <<<<"i", "n", "d", "e", "x">>>> ELSE segs

\* findFunctionFileUncached(functionsDir, reqPath)
findFunctionFileUncached(fs, sitePath, functionsDir, reqPath, order) ==
  LET segments == RouteSegments(reqPath)
      directPath == PathJoin(<<functionsDir>> \o segments) \o DotJs
      indexPath == PathJoin(<<functionsDir>> \o segments \o <<IndexJs>>)
  IN IF FileExistsIn(fs, sitePath, directPath) THEN Found(directPath, <<>>)
     ELSE IF FileExistsIn(fs, sitePath, indexPath) THEN Found(indexPath, <<>>)
          ELSE findDynamicRoute(fs, sitePath, functionsDir, segments, <<>>, order)

\* The part of handleFunction that resolves the route: null when the site
\* has no _functions directory.
ResolveFunction(fs, sitePath, reqPath, order) ==
  LET functionsDir == PathJoin(<<sitePath, FunctionsDirName>>)
  IN IF ~IsDirectoryIn(fs, sitePath, functionsDir) THEN NoRoute
     ELSE findFunctionFileUncached(fs, sitePath, functionsDir, reqPath, order)

\* ------------------------------------------------------------------------
\* Site registry lookup (lib/sites.js) and Basic auth (lib/middleware/auth.js)
\* ------------------------------------------------------------------------

\* Property names every JavaScript object inherits from Object.prototype and
\* that are also well-formed lower-case host names.
InheritedKeys == {<<"c", "o", "n", "s", "t", "r", "u", "c", "t", "o", "r">>}

NoEnv == [user |-> <<>>, hash |-> [set |-> FALSE, wellFormed |-> FALSE, of |-> <<>>]]

\* getSiteByHost: `sites[host] || null` on the object parsed from sites.json.
\* A property lookup on a plain object also finds what the object inherits:
\* for such a key the result is a truthy value (a built-in function) whose
\* `enabled` and `env` are undefined.
getSiteByHost(registry, host) ==
  IF host \in DOMAIN registry
  THEN [found |-> TRUE, enabled |-> registry[host].enabled, env |-> registry[host].env]
  ELSE IF host \in InheritedKeys
       THEN [found |-> TRUE, enabled |-> FALSE, env |-> NoEnv]
       ELSE [found |-> FALSE, enabled |-> FALSE, env |-> NoEnv]

BasicPrefix == <<"B", "a", "s", "i", "c", " ">>

Challenge == {<<"WWW-Authenticate", "Basic realm=\"Admin\"">>}

\* Bun.password.verify(password, hash): "throws" for an undefined password
\* and for a hash it cannot parse, else whether the password is the hashed one.
PasswordVerify(hasPassword, password, hash) ==
  IF ~hasPassword \/ ~hash.wellFormed THEN "throws"
  ELSE IF password = hash.of THEN "valid" ELSE "invalid"

\* checkBasicAuth without the comparison of the usernames: what the cases
\* of C12 must tell apart from checkBasicAuth.
AnyUsername(authorization, env) ==
  IF env.user = <<>> \/ ~env.hash.set
  THEN Response(500, "auth", <<>>, <<>>, {})
  ELSE IF ~authorization.present \/ authorization.prefix # BasicPrefix
       THEN Response(401, "auth", <<>>, <<>>, Challenge)
       ELSE LET parts == SplitColon(authorization.payload)
                hasPassword == Len(parts) >= 2
                verdict == PasswordVerify(hasPassword,
                                          IF hasPassword THEN parts[2] ELSE <<>>,
                                          env.hash)
            IN IF verdict = "throws" THEN Response(500, "auth", <<>>, <<>>, {})
               ELSE IF verdict = "invalid"
                    THEN Response(401, "auth", <<>>, <<>>, Challenge)
                    ELSE Null

\* checkBasicAuth(req, site): a Response when authentication failed, null
\* when it succeeded.  The Authorization header is [present, prefix, payload]:
\* its first six characters and the bytes the rest is the base64 of.
checkBasicAuth(authorization, env) ==
  IF env.user = <<>> \/ ~env.hash.set
  THEN Response(500, "auth", <<>>, <<>>, {})
  ELSE IF ~authorization.present \/ authorization.prefix # BasicPrefix
       THEN Response(401, "auth", <<>>, <<>>, Challenge)
       ELSE LET parts == SplitColon(authorization.payload)
                providedUsername == parts[1]
                hasPassword == Len(parts) >= 2
                providedPassword == IF hasPassword THEN parts[2] ELSE <<>>
                verdict == PasswordVerify(hasPassword, providedPassword, env.hash)
            IN IF providedUsername # env.user
               THEN Response(401, "auth", <<>>, <<>>, Challenge)
               ELSE IF verdict = "throws" THEN Response(500, "auth", <<>>, <<>>, {})
                    ELSE IF verdict = "invalid"
                         THEN Response(401, "auth", <<>>, <<>>, Challenge)
                         ELSE Null

\* A test that never asks for credentials: what the gating of C1 must tell
\* apart from NeedsAuth.
NeverNeedsAuth(auth, reqPath) == FALSE

\* The needsAuth test of handleRequest on siteConfig.auth, which is absent
\* (kind "none"), a string (kind "string", in `type`) or an object (kind
\* "object") with a type and, when hasPaths, a list of path prefixes.
NeedsAuth(auth, reqPath) ==
  /\ auth.kind # "none"
  /\ \/ auth.kind = "string" /\ auth.type = "basic"
     \/ /\ auth.kind = "object"
        /\ auth.type = "basic"
        /\ auth.hasPaths
        /\ \E i \in 1..Len(auth.paths) : StartsWith(reqPath, auth.paths[i])

\* ------------------------------------------------------------------------
\* CORS and header decoration (lib/router.js)
\* ------------------------------------------------------------------------

SECURITY_HEADERS ==
  {<<"X-Content-Type-Options", "nosniff">>,
   <<"X-Frame-Options", "SAMEORIGIN">>,
   <<"Referrer-Policy", "strict-origin-when-cross-origin">>}

\* headers.set(key, value): replaces any value the name already has.
SetHeader(headers, key, value) ==
  {h \in headers : h[1] # key} \cup {<<key, value>>}

\* addHeader(response, key, value)
addHeader(response, key, value) ==
  [response EXCEPT !.headers = SetHeader(response.headers, key, value)]

\* The X-Request-Id every return of handleRequest adds.
WithRequestId(response) == addHeader(response, "X-Request-Id", "id")

\* addSecurityHeaders(response)
addSecurityHeaders(response) ==
  [response EXCEPT !.headers =
     {h \in response.headers : \A sh \in SECURITY_HEADERS : h[1] # sh[1]}
       \cup SECURITY_HEADERS]

\* isOriginAllowed(origin, corsConfig)
isOriginAllowed(origin, corsConfig) ==
  "*" \in corsConfig.origins \/ origin \in corsConfig.origins

\* handleCors(corsConfig, req): the preflight response.  origin "" stands
\* for a request without Origin header.
handleCors(corsConfig, origin) ==
  LET allow ==
        IF origin # "" /\ isOriginAllowed(origin, corsConfig)
        THEN {<<"Access-Control-Allow-Origin", origin>>,
              <<"Access-Control-Allow-Methods", "GET, POST, PUT, DELETE">>,
              <<"Access-Control-Allow-Headers", "Content-Type, Authorization, X-API-Key">>,
              <<"Access-Control-Max-Age", "86400">>}
             \cup (IF corsConfig.credentials
                   THEN {<<"Access-Control-Allow-Credentials", "true">>} ELSE {})
        ELSE {}
  IN Response(204, "preflight", <<>>, <<>>, allow)

\* addCorsHeaders(response, corsConfig, req)
addCorsHeaders(response, corsConfig, origin) ==
  IF origin = "" \/ ~isOriginAllowed(origin, corsConfig) THEN response
  ELSE LET withOrigin == addHeader(response, "Access-Control-Allow-Origin", origin)
       IN IF corsConfig.credentials
          THEN addHeader(withOrigin, "Access-Control-Allow-Credentials", "true")
          ELSE withOrigin

\* ------------------------------------------------------------------------
\* A fixture: a registry, the sites' configurations and one deployment
\* (after the fixtures of tests/paas.test.js)
\* ------------------------------------------------------------------------

\* "a.t"
HostA ==
  <<"a", ".", "t">>

\* "b.t"
HostAuth ==
  <<"b", ".", "t">>

\* "c.t"
HostScoped ==
  <<"c", ".", "t">>

\* "off.t"
HostOff ==
  <<"o", "f", "f", ".", "t">>

\* "x.t"
HostUnknown ==
  <<"x", ".", "t">>

\* "constructor"
HostInherited ==
  <<"c", "o", "n", "s", "t", "r", "u", "c", "t", "o", "r">>

\* "admin"
Admin ==
  <<"a", "d", "m", "i", "n">>

\* "secret"
Secret ==
  <<"s", "e", "c", "r", "e", "t">>

\* "/admin"
AdminPrefix ==
  <<"/", "a", "d", "m", "i", "n">>

GoodEnv == [user |-> Admin, hash |-> [set |-> TRUE, wellFormed |-> TRUE, of |-> Secret]]

\* sites.json: three enabled sites and a disabled one.
Registry ==
  (HostA :> [enabled |-> TRUE, env |-> GoodEnv])
  @@ (HostAuth :> [enabled |-> TRUE, env |-> GoodEnv])
  @@ (HostScoped :> [enabled |-> TRUE, env |-> GoodEnv])
  @@ (HostOff :> [enabled |-> FALSE, env |-> NoEnv])

NoAuth == [kind |-> "none", type |-> "", hasPaths |-> FALSE, paths |-> <<>>]
NoCors == [configured |-> FALSE, origins |-> {}, credentials |-> FALSE]

\* `siteConfig || {}` for a deployment without site.json.
EmptyConfig == [auth |-> NoAuth, cors |-> NoCors, functionTimeout |-> 0]

\* The site.json of each site: HostA declares CORS, HostAuth protects every
\* path, HostScoped protects the paths under /admin and shortens the
\* function timeout.  functionTimeout 0 stands for an absent (or zero) value.
Configs ==
  (HostA :> [auth |-> NoAuth,
             cors |-> [configured |-> TRUE, origins |-> {"http://allowed.com"},
                       credentials |-> TRUE],
             functionTimeout |-> 0])
  @@ (HostAuth :> [auth |-> [kind |-> "string", type |-> "basic",
                             hasPaths |-> FALSE, paths |-> <<>>],
                   cors |-> [configured |-> TRUE, origins |-> {"*"},
                             credentials |-> FALSE],
                   functionTimeout |-> 0])
  @@ (HostScoped :> [auth |-> [kind |-> "object", type |-> "basic",
                               hasPaths |-> TRUE, paths |-> <<AdminPrefix>>],
                     cors |-> NoCors,
                     functionTimeout |-> 20000])
  @@ (HostOff :> EmptyConfig)

\* The path of a function file below the site root.
Fn(rel) == <<"/">> \o FunctionsDirName \o rel

\* "/index.html"
F_index ==
  <<"/", "i", "n", "d", "e", "x", ".", "h", "t", "m", "l">>

\* "/about.html"
F_about ==
  <<"/", "a", "b", "o", "u", "t", ".", "h", "t", "m", "l">>

\* "/style.css"
F_style ==
  <<"/", "s", "t", "y", "l", "e", ".", "c", "s", "s">>

\* "/docs/index.html"
F_docs ==
  <<"/", "d", "o", "c", "s", "/", "i", "n", "d", "e", "x", ".", "h", "t",
  "m", "l">>

\* "/.env"
F_env ==
  <<"/", ".", "e", "n", "v">>

\* "/site.json"
F_siteJson ==
  <<"/", "s", "i", "t", "e", ".", "j", "s", "o", "n">>

\* "/404.html"
F_404 ==
  <<"/", "4", "0", "4", ".", "h", "t", "m", "l">>

\* "/team/index.html"
F_teamIndex ==
  <<"/", "t", "e", "a", "m", "/", "i", "n", "d", "e", "x", ".", "h", "t",
  "m", "l">>

\* "/team.html"
F_teamHtml ==
  <<"/", "t", "e", "a", "m", ".", "h", "t", "m", "l">>

\* "/admin/index.html"
F_adminIndex ==
  <<"/", "a", "d", "m", "i", "n", "/", "i", "n", "d", "e", "x", ".", "h",
  "t", "m", "l">>

\* "/_functions/hello.js"
M_hello ==
  Fn(<<"/", "h", "e", "l", "l", "o", ".", "j", "s">>)

\* "/_functions/users/[id]/index.js"
M_userId ==
  Fn(<<"/", "u", "s", "e", "r", "s", "/", "[", "i", "d", "]", "/", "i",
     "n", "d", "e", "x", ".", "j", "s">>)

\* "/_functions/users/me.js"
M_userMe ==
  Fn(<<"/", "u", "s", "e", "r", "s", "/", "m", "e", ".", "j", "s">>)

\* "/_functions/admin/index.js"
M_adminIndex ==
  Fn(<<"/", "a", "d", "m", "i", "n", "/", "i", "n", "d", "e", "x", ".",
     "j", "s">>)

\* The files of the deployment: static pages, files that must never be
\* served, and the function modules.
SiteFiles ==
  {F_index, F_about, F_style, F_docs, F_env, F_siteJson, F_404, F_teamIndex,
   F_teamHtml, F_adminIndex, M_hello, M_userId, M_userMe, M_adminIndex}

\* "/old /new"
L_old ==
  <<"/", "o", "l", "d", " ", "/", "n", "e", "w">>

\* "/temp /somewhere 302"
L_temp ==
  <<"/", "t", "e", "m", "p", " ", "/", "s", "o", "m", "e", "w", "h", "e",
  "r", "e", " ", "3", "0", "2">>

\* "/blog/* /posts/:splat"
L_blog ==
  <<"/", "b", "l", "o", "g", "/", "*", " ", "/", "p", "o", "s", "t", "s",
  "/", ":", "s", "p", "l", "a", "t">>

\* The _redirects file of the deployment.
SiteRedirects == [exists |-> TRUE, lines |-> <<L_old, L_temp, L_blog>>]

\* ------------------------------------------------------------------------
\* Function modules and their handlers (tenant code)
\* ------------------------------------------------------------------------

\* The exports of the module at `relPath` (below the site root).
ModuleExports(relPath) ==
  IF relPath = M_hello THEN {"get", "post"}
  ELSE IF relPath = M_userId THEN {"get"}
  ELSE IF relPath = M_userMe THEN {"default"}
  ELSE IF relPath = M_adminIndex THEN {"get", "del"}
  ELSE {}

\* req.method.toLowerCase()
MethodName(method) ==
  CASE method = "GET" -> "get" [] method = "POST" -> "post"
    [] method = "DELETE" -> "delete" [] method = "OPTIONS" -> "options"
    [] OTHER -> "other"

\* functionModule[methodName] || (methodName === "delete" ? functionModule.del
\* : null) || functionModule.default: the export chosen, "" when there is none.
SelectHandler(exports, methodName) ==
  IF methodName \in exports THEN methodName
  ELSE IF methodName = "delete" /\ "del" \in exports THEN "del"
       ELSE IF "default" \in exports THEN "default" ELSE ""

\* What a handler's promise may settle with: a value it resolves with
\* (nothing, an object with status 201 and an object body, an object with a
\* string body) or an Error it rejects with (named by its message).
Resolutions == {"undefined", "created", "text"}
Rejections == {"Function timeout", "boom"}

\* The Content-Type of the object subscribe returns with a stream.
EventStream == <<"Content-Type", "text/event-stream">>

\* buildResponse(result): nothing, an object with a JSON body, the object
\* subscribe returns with a stream ("stream") or at the cap ("refused"), or
\* an object with a text body.
buildResponse(result) ==
  CASE result = "undefined" -> Response(204, "function", <<>>, <<>>, {})
    [] result = "created" ->
         Response(201, "function", <<>>, <<>>,
                  {<<"X-Custom", "header">>, <<"Content-Type", "application/json">>})
    [] result = "stream" ->
         Response(200, "function", <<>>, <<>>,
                  {EventStream, <<"Cache-Control", "no-cache">>,
                   <<"Connection", "keep-alive">>})
    [] result = "refused" ->
         Response(503, "function", <<>>, <<>>,
                  {<<"Content-Type", "application/json">>})
    [] OTHER -> Response(200, "function", <<>>, <<>>, {})

\* The catch block of handleFunction, for an Error with message `message`.
FunctionError(message) ==
  IF message = "Function timeout"
  THEN Response(504, "function", <<>>, <<>>, {<<"Content-Type", "application/json">>})
  ELSE Response(500, "function", <<>>, <<>>, {<<"Content-Type", "application/json">>})

\* A timeout that ignores site.json: what C3 must tell apart from TimeoutOf.
DefaultTimeoutOnly(config) == FUNCTION_TIMEOUT

\* siteConfig?.functionTimeout || FUNCTION_TIMEOUT
TimeoutOf(config) ==
  IF config.functionTimeout = 0 THEN FUNCTION_TIMEOUT ELSE config.functionTimeout

\* The orders in which a directory scan may list the bracketed entries.
BracketDir == <<"[", "i", "d", "]">>
BracketFile == <<"[", "i", "d", "]", ".", "j", "s">>
BracketSlug == <<"[", "s", "l", "u", "g", "]">>
ScanOrders ==
  {<<BracketDir, BracketFile, BracketSlug>>, <<BracketFile, BracketSlug, BracketDir>>,
   <<BracketSlug, BracketDir, BracketFile>>, <<BracketFile, BracketDir, BracketSlug>>}

\* ------------------------------------------------------------------------
\* Requests
\* ------------------------------------------------------------------------

NoAuthorization == [present |-> FALSE, prefix |-> <<>>, payload |-> <<>>]
BasicAuthorization(payload) == [present |-> TRUE, prefix |-> BasicPrefix, payload |-> payload]
BearerAuthorization == [present |-> TRUE, prefix |-> <<"B", "e", "a", "r", "e", "r">>, payload |-> <<>>]

Request(host, target, search, method, authorization, origin) ==
  [host |-> host, target |-> target, search |-> search, method |-> method,
   authorization |-> authorization, origin |-> origin]

NoRequest == Request(<<>>, <<"/">>, <<>>, "", NoAuthorization, "")

\* "/"
T_root ==
  <<"/">>

\* "/about"
T_about ==
  <<"/", "a", "b", "o", "u", "t">>

\* "/about/"
T_aboutSlash ==
  <<"/", "a", "b", "o", "u", "t", "/">>

\* "/team"
T_team ==
  <<"/", "t", "e", "a", "m">>

\* "/style.css"
T_style ==
  <<"/", "s", "t", "y", "l", "e", ".", "c", "s", "s">>

\* "/site.json"
T_siteJson ==
  <<"/", "s", "i", "t", "e", ".", "j", "s", "o", "n">>

\* "/hello"
T_hello ==
  <<"/", "h", "e", "l", "l", "o">>

\* "/users/42"
T_user42 ==
  <<"/", "u", "s", "e", "r", "s", "/", "4", "2">>

\* "/users/me"
T_userMe ==
  <<"/", "u", "s", "e", "r", "s", "/", "m", "e">>

\* "/admin"
T_admin ==
  <<"/", "a", "d", "m", "i", "n">>

\* "/admin/"
T_adminSlash ==
  <<"/", "a", "d", "m", "i", "n", "/">>

\* "/old"
T_old ==
  <<"/", "o", "l", "d">>

\* "/blog/x"
T_blogX ==
  <<"/", "b", "l", "o", "g", "/", "x">>

\* "//evil.com/"
T_evil ==
  <<"/", "/", "e", "v", "i", "l", ".", "c", "o", "m", "/">>

\* "///"
T_slashes ==
  <<"/", "/", "/">>

\* "/nope"
T_nope ==
  <<"/", "n", "o", "p", "e">>

\* "/docs/../about/"
T_dotdot ==
  <<"/", "d", "o", "c", "s", "/", ".", ".", "/", "a", "b", "o", "u", "t", "/">>

\* "?q=1"
Q_q ==
  <<"?", "q", "=", "1">>

\* "admin:secret"
C_good ==
  <<"a", "d", "m", "i", "n", ":", "s", "e", "c", "r", "e", "t">>

\* "admin:wrong"
C_wrong ==
  <<"a", "d", "m", "i", "n", ":", "w", "r", "o", "n", "g">>

\* "admin"
C_noColon ==
  <<"a", "d", "m", "i", "n">>

Targets ==
  {T_root, T_about, T_aboutSlash, T_team, T_style, T_siteJson, T_hello,
   T_user42, T_userMe, T_admin, T_adminSlash, T_old, T_blogX, T_evil,
   T_slashes, T_nope, T_dotdot}

Hosts == {HostA, HostAuth, HostScoped, HostOff, HostUnknown, HostInherited}

Authorizations ==
  {NoAuthorization, BearerAuthorization, BasicAuthorization(C_good),
   BasicAuthorization(C_wrong), BasicAuthorization(C_noColon)}

\* The Origin header: absent (""), the origin HostA lists, one no site lists.
Origins == {"", "http://allowed.com", "http://evil.com"}

\* The requests the router is driven with.
Requests ==
  {Request(h, t, q, m, a, o) :
     h \in Hosts, t \in Targets, q \in {<<>>, Q_q}, m \in {"GET", "OPTIONS", "POST"},
     a \in Authorizations, o \in Origins}

\* The requests SpecFn is driven with: function routes of two sites with
\* different timeouts.
FnRequests ==
  {Request(HostA, T_hello, <<>>, "GET", NoAuthorization, ""),
   Request(HostScoped, T_user42, <<>>, "GET", NoAuthorization, "")}

\* What the handlers of those requests resolve with, when they do, and what
\* they throw when they throw at once.
FnResolutions == {"text"}
FnRejections == {"boom"}

\* ------------------------------------------------------------------------
\* The channel hub (lib/channels.js)
\* ------------------------------------------------------------------------

ChannelNames == {"a", "b"}

StreamIds == 1..MaxStreams

\* The chunks a stream is fed: the preamble of subscribe, the comment line
\* of the heartbeat and the frame of publish, each with its terminator.
Retry == <<"retry: 1000", "\n\n">>
Keepalive == <<": keepalive", "\n\n">>
Frame(payload) == <<"data: ", payload, "\n\n">>

\* Values publish may be called with: a string, a number, undefined, null,
\* a plain object and an object that refers to itself.
D_text == [type |-> "string", value |-> "hi"]
D_number == [type |-> "number", value |-> "42"]
D_undefined == [type |-> "undefined", value |-> ""]
D_null == [type |-> "object", value |-> "null"]
D_object == [type |-> "object", value |-> "n:1"]
D_cyclic == [type |-> "object", value |-> "cyclic"]

\* The values the hub is driven with.
Data == {D_text, D_object, D_cyclic}

\* JSON.stringify(data): [ok, text]; it throws for a cyclic structure.
JSONStringify(data) ==
  CASE data = D_null -> [ok |-> TRUE, text |-> "null"]
    [] data = D_object -> [ok |-> TRUE, text |-> "{\"n\":1}"]
    [] OTHER -> [ok |-> FALSE, text |-> ""]

\* String(data) for a value that is not an object.
String(data) ==
  CASE data.type = "undefined" -> "undefined"
    [] OTHER -> data.value

\* typeof data === "object" ? JSON.stringify(data) : String(data)
Payload(data) ==
  IF data.type = "object" THEN JSONStringify(data)
  ELSE [ok |-> TRUE, text |-> String(data)]

\* A stream that was never opened.
NoStream == [state |-> "unused", channel |-> "", queue |-> <<>>, heartbeat |-> FALSE]

NoCall == [op |-> "", channel |-> "", stream |-> 0, status |-> 0]

HubIdle ==
  /\ channels = [c \in {} |-> {}]
  /\ streams = [s \in StreamIds |-> NoStream]
  /\ hub = NoCall
  /\ sent = 0

\* channels.set(channel, subscribers) and channels.delete(channel)
SetEntry(map, channel, subscribers) ==
  [c \in DOMAIN map \cup {channel} |-> IF c = channel THEN subscribers ELSE map[c]]

DeleteEntry(map, channel) == [c \in DOMAIN map \ {channel} |-> map[c]]

\* channels.get(channel) || new Set()
SubscribersOf(map, channel) == IF channel \in DOMAIN map THEN map[channel] ELSE {}

\* A hub that never refuses a subscriber: what the cap of C19 must tell
\* apart from AtCapacity.
NeverAtCapacity(subscribers) == FALSE

\* subscribers.size >= MAX_SUBSCRIBERS_PER_CHANNEL
AtCapacity(subscribers) == Cardinality(subscribers) >= MAX_SUBSCRIBERS_PER_CHANNEL

\* controller.enqueue(chunk) succeeds on a readable stream and throws on one
\* that is closed or whose sink has failed.
Accepts(stream) == stream.state = "open"

enqueue(all, s, chunk) == [all EXCEPT ![s].queue = Append(@, chunk)]

\* A cleanup that keeps the entry of a channel it has emptied: what C18 and
\* C20 must tell apart from cleanup.
cleanupKeepsEntry(state, channel, s) ==
  IF channel \notin DOMAIN state.channels THEN state
  ELSE [channels |-> SetEntry(state.channels, channel, state.channels[channel] \ {s}),
        streams |-> [state.streams EXCEPT ![s].heartbeat = FALSE]]

\* A cleanup that drops every subscriber of the channel: what C20 must tell
\* apart from cleanup.
cleanupChannel(state, channel, s) ==
  IF channel \notin DOMAIN state.channels THEN state
  ELSE [channels |-> DeleteEntry(state.channels, channel),
        streams |-> [state.streams EXCEPT ![s].heartbeat = FALSE]]

\* A cleanup that takes the subscriber out of its channel and leaves its
\* interval timer running: what C40 must tell apart from cleanup.
cleanupKeepsTimer(state, channel, s) ==
  IF channel \notin DOMAIN state.channels THEN state
  ELSE LET subs == state.channels[channel] \ {s}
       IN [channels |-> IF subs = {}
                        THEN DeleteEntry(state.channels, channel)
                        ELSE SetEntry(state.channels, channel, subs),
           streams |-> state.streams]

\* cleanup(channel, subscriber) on the hub state [channels, streams].
cleanup(state, channel, s) ==
  IF channel \notin DOMAIN state.channels THEN state
  ELSE LET subs == state.channels[channel] \ {s}
       IN [channels |-> IF subs = {}
                        THEN DeleteEntry(state.channels, channel)
                        ELSE SetEntry(state.channels, channel, subs),
           streams |-> [state.streams EXCEPT ![s].heartbeat = FALSE]]

\* The start callback of the stream subscribe(channel) constructs; the
\* ReadableStream constructor runs it before it returns.
start(state, channel, s) ==
  [channels |-> SetEntry(state.channels, channel,
                         SubscribersOf(state.channels, channel) \cup {s}),
   streams |-> [state.streams EXCEPT ![s] =
                  [state |-> "open", channel |-> channel,
                   queue |-> <<Retry>>, heartbeat |-> TRUE]]]

\* A loop that gives up at the first subscriber whose write throws: what
\* C21 must tell apart from Deliver.
RECURSIVE DeliverUntilThrow(_, _, _, _)
DeliverUntilThrow(state, channel, pending, message) ==
  IF pending = {} THEN state
  ELSE LET s == CHOOSE x \in pending : \A y \in pending : x <= y
       IN IF Accepts(state.streams[s])
          THEN DeliverUntilThrow([state EXCEPT !.streams = enqueue(@, s, message)],
                                 channel, pending \ {s}, message)
          ELSE cleanup(state, channel, s)

\* The loop of publish over the subscribers still to be visited, in the
\* order of the Set (the order they were added in).
RECURSIVE Deliver(_, _, _, _)
Deliver(state, channel, pending, message) ==
  IF pending = {} THEN state
  ELSE LET s == CHOOSE x \in pending : \A y \in pending : x <= y
       IN Deliver(IF Accepts(state.streams[s])
                  THEN [state EXCEPT !.streams = enqueue(@, s, message)]
                  ELSE cleanup(state, channel, s),
                  channel, pending \ {s}, message)

\* A publish that feeds every open stream, whatever its channel: what C17
\* must tell apart from publish.
publishToAll(state, channel, data) ==
  IF SubscribersOf(state.channels, channel) = {} \/ ~Payload(data).ok THEN state
  ELSE [state EXCEPT !.streams =
          [s \in DOMAIN @ |->
             IF Accepts(@[s]) THEN [@[s] EXCEPT !.queue = Append(@, Frame(Payload(data).text))]
             ELSE @[s]]]

\* publish(channel, data) on the hub state [channels, streams]; when
\* JSON.stringify throws nothing has been written yet.
publish(state, channel, data) ==
  LET subs == SubscribersOf(state.channels, channel)
      payload == Payload(data)
  IN IF subs = {} \/ ~payload.ok THEN state
     ELSE LET after == Deliver(state, channel, subs, Frame(payload.text))
          IN IF SubscribersOf(after.channels, channel) = {}
             THEN [after EXCEPT !.channels = DeleteEntry(@, channel)]
             ELSE after

\* The hub state the operations work on.
Hub == [channels |-> channels, streams |-> streams]

SetHub(state) ==
  /\ channels' = state.channels
  /\ streams' = state.streams

\* subscribe(channel) is called: 503 at the cap, else a stream is
\* constructed (and started) and returned with status 200.
Subscribe(channel) ==
  /\ IF AtCapacity(SubscribersOf(channels, channel))
     THEN /\ hub' = [op |-> "subscribe", channel |-> channel, stream |-> 0, status |-> 503]
          /\ UNCHANGED <<channels, streams>>
     ELSE \E s \in StreamIds :
            /\ streams[s].state = "unused"
            /\ \A other \in StreamIds : other < s => streams[other].state # "unused"
            /\ SetHub(start(Hub, channel, s))
            /\ hub' = [op |-> "subscribe", channel |-> channel, stream |-> s, status |-> 200]
  /\ UNCHANGED <<diskVars, storeVars, req, pc, resp, did, probes, fnVars, sent>>

\* publish(channel, data) is called; status -1 when it throws.
Publish(channel, data) ==
  /\ sent < MaxMessages
  /\ SetHub(publish(Hub, channel, data))
  /\ hub' = [op |-> "publish", channel |-> channel, stream |-> 0,
             status |-> IF Payload(data).ok THEN 0 ELSE -1]
  /\ sent' = IF SubscribersOf(channels, channel) # {} /\ Payload(data).ok
             THEN sent + 1 ELSE sent
  /\ UNCHANGED <<diskVars, storeVars, req, pc, resp, did, probes, fnVars>>

\* The client of stream s disconnects: the stream is cancelled and its
\* cancel callback runs cleanup.
Cancel(s) ==
  /\ streams[s].state \in {"open", "failing"}
  /\ SetHub(cleanup([Hub EXCEPT !.streams[s].state = "cancelled"],
                    streams[s].channel, s))
  /\ hub' = [op |-> "cancel", channel |-> streams[s].channel, stream |-> s, status |-> 0]
  /\ UNCHANGED <<diskVars, storeVars, req, pc, resp, did, probes, fnVars, sent>>

\* The interval timer of subscriber s ticks: a keepalive comment, or
\* cleanup when the write throws.
Heartbeat(s) ==
  /\ streams[s].heartbeat
  /\ sent < MaxMessages
  /\ SetHub(IF Accepts(streams[s])
            THEN [Hub EXCEPT !.streams = enqueue(@, s, Keepalive)]
            ELSE cleanup(Hub, streams[s].channel, s))
  /\ hub' = [op |-> "heartbeat", channel |-> streams[s].channel, stream |-> s, status |-> 0]
  /\ sent' = sent + 1
  /\ UNCHANGED <<diskVars, storeVars, req, pc, resp, did, probes, fnVars>>

\* The sink of stream s fails without the cancel callback having run: from
\* now on a write to it throws.
SinkFails(s) ==
  /\ streams[s].state = "open"
  /\ streams' = [streams EXCEPT ![s].state = "failing"]
  /\ UNCHANGED <<diskVars, storeVars, req, pc, resp, did, probes, fnVars, channels, hub, sent>>

NextHub ==
  \/ \E channel \in ChannelNames : Subscribe(channel)
  \/ \E channel \in ChannelNames, data \in Data : Publish(channel, data)
  \/ \E s \in StreamIds : Cancel(s)
  \/ \E s \in StreamIds : Heartbeat(s)
  \/ \E s \in StreamIds : SinkFails(s)

\* ------------------------------------------------------------------------
\* Site registry and deployment config cache (lib/sites.js)
\* ------------------------------------------------------------------------

\* The asynchronous calls into lib/sites.js that may be in flight at once.
Tasks == 1..MaxTasks

\* Addresses of the objects JSON.parse and the ENOENT branch create: the
\* cache and each task hold at most one reference each.
Objects == 1..(MaxTasks + 1)

\* { sites: {} }
EmptyDoc == [h \in {} |-> [enabled |-> TRUE, env |-> NoEnv]]

\* data.sites[host] = site and delete data.sites[host]
PutSite(doc, host, site) ==
  [h \in DOMAIN doc \cup {host} |-> IF h = host THEN site ELSE doc[h]]

RemoveSite(doc, host) == [h \in DOMAIN doc \ {host} |-> doc[h]]

\* The text of a file: what JSON.stringify produced, or the part of it that
\* has reached the file (none of it, once the file was opened for writing).
Written(doc) == [complete |-> TRUE, doc |-> doc]

NoText == [complete |-> FALSE, doc |-> EmptyDoc]

\* A path that names no file.
Absent == [exists |-> FALSE, text |-> NoText, mtime |-> 0, writers |-> {}]

SitesJson == "sites.json"
SitesTmp == "sites.json.tmp"
SiteJson == "site.json"

FileNames == {SitesJson, SitesTmp, SiteJson}

\* The site.json of two deployments of HostA.
ConfigOld == Configs[HostA]
ConfigNew == Configs[HostAuth]

\* The site.json contents a deployment or an editor may leave.
ConfigTexts == {Written(ConfigOld), Written(ConfigNew)}

\* sites.json with HostA alone, and what an editor makes of a document: it
\* adds HostAuth, or removes it when it is there.
DocA == PutSite(EmptyDoc, HostA, [enabled |-> TRUE, env |-> NoEnv])

Edited(doc) ==
  IF HostAuth \in DOMAIN doc THEN RemoveSite(doc, HostAuth)
  ELSE PutSite(doc, HostAuth, [enabled |-> TRUE, env |-> GoodEnv])

\* siteConfigCache.get(sitePath): undefined, or { config, mtime } where
\* config may be null.
NoEntry == [present |-> FALSE, isNull |-> TRUE, config |-> EmptyConfig, mtime |-> 0]

Entry(isNull, config, mtime) ==
  [present |-> TRUE, isNull |-> isNull, config |-> config, mtime |-> mtime]

\* What is known about the last change made to a file from outside the
\* process: how many there were, the text it left, whether the cache was
\* invalidated since, whether a registry write replaced the file since.
NoEdit == [edits |-> 0, text |-> NoText, invalidated |-> FALSE, overwritten |-> FALSE]

NoTask ==
  [op |-> "none", host |-> <<>>, pc |-> "idle", data |-> 0, seen |-> Absent,
   text |-> NoText, cached |-> NoEntry, status |-> "", value |-> EmptyDoc,
   config |-> NoEntry, expect |-> FALSE, before |-> EmptyDoc]

RegistryOps == {"loadSites", "createSite", "updateSite", "deleteSite", "updateSiteEnv"}

\* The hosts the registry is called with.
RegistryHosts == {HostA, HostInherited}

\* What no call into lib/sites.js changes.
outside == <<diskVars, hubVars, logVars, pathVars, req, pc, resp, did, probes, fnVars>>

RegistryIdle ==
  /\ isDev = FALSE
  /\ fsys = [f \in FileNames |-> Absent]
  /\ sitesCache = 0
  /\ sitesCacheMtime = 0
  /\ objs = [o \in Objects |-> EmptyDoc]
  /\ siteConfigCache = NoEntry
  /\ task = [t \in Tasks |-> NoTask]
  /\ extern = [f \in FileNames |-> NoEdit]
  /\ clock = 0
  /\ calls = 0

\* The mtime a write leaves.  Only development mode ever looks at an mtime,
\* so the trusted mode keeps none.
Stamp == IF isDev THEN clock + 1 ELSE 0

\* The objects that stay reachable, the others are forgotten.
Reachable(heap, cache, tasks) ==
  [o \in Objects |->
     IF o = cache \/ \E t \in Tasks : tasks[t].data = o THEN heap[o] ELSE EmptyDoc]

\* The address of a new object while task t runs.
NewObject(t) ==
  CHOOSE o \in Objects :
    /\ o # sitesCache
    /\ \A u \in Tasks \ {t} : task[u].data # o
    /\ \A p \in Objects :
         (p # sitesCache /\ \A u \in Tasks \ {t} : task[u].data # p) => o <= p

\* The task when its call has returned or thrown.
Done(tk, status, value) ==
  [tk EXCEPT !.pc = "done", !.status = status, !.value = value, !.data = 0,
             !.seen = Absent, !.text = NoText, !.before = EmptyDoc]

\* data.sites[host], as a condition
HasSite(doc, host) == getSiteByHost(doc, host).found

\* What createSite, updateSite, deleteSite and updateSiteEnv do to the
\* document loadSites returned, before they call saveSites; getSites and
\* loadSites itself leave it as it is.  A host that is only inherited is
\* a function object: spreading it yields no property, assigning its env
\* and deleting it leave the document as it is.
Mutated(op, doc, host) ==
  CASE op = "createSite" ->
         PutSite(doc, host, [enabled |-> TRUE, env |-> NoEnv])
    [] op = "updateSite" ->
         PutSite(doc, host,
                 IF host \in DOMAIN doc THEN [doc[host] EXCEPT !.enabled = FALSE]
                 ELSE [enabled |-> FALSE, env |-> NoEnv])
    [] op = "deleteSite" -> RemoveSite(doc, host)
    [] op = "updateSiteEnv" ->
         IF host \in DOMAIN doc
         THEN PutSite(doc, host, [doc[host] EXCEPT !.env = GoodEnv])
         ELSE doc
    [] OTHER -> doc

\* The check each operation makes on the document before it changes it.
Refusal(op, doc, host) ==
  CASE op = "createSite" /\ HasSite(doc, host) -> "already exists"
    [] op \in {"updateSite", "deleteSite", "updateSiteEnv"} /\ ~HasSite(doc, host) ->
         "not found"
    [] OTHER -> ""

\* The caller of loadSites goes on with the object at `ref` of `heap`:
\* loadSites itself returns it, the others check the host, change the
\* object in place and call saveSites, which serialises it at once.  The
\* result is the task and the heap.
Resume(tk, ref, heap) ==
  IF ref = 0
  THEN [task |-> Done(tk, IF tk.op = "loadSites" THEN "null" ELSE "TypeError", EmptyDoc),
        heap |-> heap]
  ELSE IF tk.op = "loadSites"
  THEN [task |-> Done(tk, "ok", heap[ref]), heap |-> heap]
  ELSE IF Refusal(tk.op, heap[ref], tk.host) # ""
  THEN [task |-> Done(tk, Refusal(tk.op, heap[ref], tk.host), heap[ref]), heap |-> heap]
  ELSE LET doc == Mutated(tk.op, heap[ref], tk.host)
       IN [task |-> [tk EXCEPT !.pc = "open", !.data = ref, !.text = Written(doc),
                               !.seen = Absent, !.before = heap[ref]],
           heap |-> [heap EXCEPT ![ref] = doc]]

\* The registry state after a step: the cache, its mtime, the tasks and the
\* heap.
SetRegistry(cache, mtime, tasks, heap) ==
  /\ sitesCache' = cache
  /\ sitesCacheMtime' = mtime
  /\ task' = tasks
  /\ objs' = Reachable(heap, cache, tasks)

\* The caller of task t goes on with the object at ref.
GoOn(t, tk, cache, mtime, ref, heap) ==
  LET next == Resume(tk, ref, heap)
  IN SetRegistry(cache, mtime, [task EXCEPT ![t] = next.task], next.heap)

\* The ENOENT branch of loadSites: a new { sites: {} } that is not cached.
ReturnEmpty(t, tk, cache, mtime) ==
  GoOn(t, tk, cache, mtime, NewObject(t), [objs EXCEPT ![NewObject(t)] = EmptyDoc])

\* Whether a call that starts now must see the last outside change of f.
Expects(f) ==
  /\ extern[f].edits > 0
  /\ ~extern[f].overwritten
  /\ isDev \/ extern[f].invalidated

\* A call of loadSites, or of an operation that starts with it.
CallRegistry(t, op, host) ==
  /\ task[t].pc \in {"idle", "done"}
  /\ calls < MaxCalls
  /\ calls' = calls + 1
  /\ LET tk == [NoTask EXCEPT !.op = op, !.host = host, !.expect = Expects(SitesJson)]
     IN IF ~isDev /\ sitesCache # 0
        THEN GoOn(t, tk, sitesCache, sitesCacheMtime, sitesCache, objs)
        ELSE SetRegistry(sitesCache, sitesCacheMtime,
                         [task EXCEPT ![t] =
                            [tk EXCEPT !.pc = IF isDev /\ sitesCache # 0
                                              THEN "stat" ELSE "readFile"]],
                         objs)
  /\ UNCHANGED <<outside, isDev, fsys, siteConfigCache, extern, clock>>

\* The task when getSiteConfig returns: null or the config.
Configured(tk, isNull, config) ==
  [Done(tk, "ok", EmptyDoc) EXCEPT !.config = Entry(isNull, config, 0)]

\* A call of getSiteConfig(sitePath).
CallGetSiteConfig(t) ==
  /\ task[t].pc \in {"idle", "done"}
  /\ calls < MaxCalls
  /\ calls' = calls + 1
  /\ LET cached == siteConfigCache
         tk == [NoTask EXCEPT !.op = "getSiteConfig", !.host = HostA, !.cached = cached,
                              !.expect = Expects(SiteJson)]
     IN task' = [task EXCEPT ![t] =
                   IF ~isDev /\ cached.present
                   THEN Configured(tk, cached.isNull, cached.config)
                   ELSE [tk EXCEPT !.pc = IF isDev /\ cached.present
                                         THEN "stat" ELSE "readFile"]]
  /\ UNCHANGED <<outside, isDev, fsys, sitesCache, sitesCacheMtime, objs, siteConfigCache,
                 extern, clock>>

\* The file a task reads.
FileOf(tk) == IF tk.op = "getSiteConfig" THEN SiteJson ELSE SitesJson

\* fs.stat and fs.readFile reach the disk: what the task will be told is
\* what the file is at this moment (its mtime, or its text).
DiskAnswers(t) ==
  /\ task[t].pc \in {"stat", "readFile", "stat again"}
  /\ task' = [task EXCEPT ![t].seen =
                            IF task[t].pc = "readFile"
                            THEN [fsys[FileOf(task[t])] EXCEPT !.writers = {}, !.mtime = 0]
                            ELSE [fsys[FileOf(task[t])] EXCEPT !.writers = {}, !.text = NoText],
                          ![t].pc = CASE @ = "stat" -> "compare"
                                      [] @ = "readFile" -> "parse"
                                      [] OTHER -> "remember"]
  /\ UNCHANGED <<outside, isDev, fsys, sitesCache, sitesCacheMtime, objs, siteConfigCache,
                 extern, clock, calls>>

\* The ENOENT branch of getSiteConfig: null is cached and returned.
ConfigMissing(t) ==
  /\ siteConfigCache' = Entry(TRUE, EmptyConfig, 0)
  /\ task' = [task EXCEPT ![t] = Configured(@, TRUE, EmptyConfig)]

\* loadSites and getSiteConfig go on after the first fs.stat (development
\* mode, something cached): the cached value when the mtime is the cached
\* one, else the file is read.
Compare(t) ==
  /\ task[t].pc = "compare"
  /\ LET tk == task[t]
     IN IF tk.op = "getSiteConfig"
        THEN /\ IF ~tk.seen.exists THEN ConfigMissing(t)
                ELSE /\ task' = [task EXCEPT ![t] =
                                   IF tk.cached.mtime = tk.seen.mtime
                                   THEN Configured(tk, tk.cached.isNull, tk.cached.config)
                                   ELSE [tk EXCEPT !.pc = "readFile"]]
                     /\ UNCHANGED siteConfigCache
             /\ UNCHANGED <<sitesCache, sitesCacheMtime, objs>>
        ELSE /\ IF ~tk.seen.exists
                THEN ReturnEmpty(t, tk, sitesCache, sitesCacheMtime)
                ELSE IF tk.seen.mtime = sitesCacheMtime
                THEN GoOn(t, tk, sitesCache, sitesCacheMtime, sitesCache, objs)
                ELSE SetRegistry(sitesCache, sitesCacheMtime,
                                 [task EXCEPT ![t].pc = "readFile"], objs)
             /\ UNCHANGED siteConfigCache
  /\ UNCHANGED <<outside, isDev, fsys, extern, clock, calls>>

\* loadSites and getSiteConfig go on after fs.readFile: JSON.parse, and the
\* cache is set (by getSiteConfig in development mode only after the
\* second stat).
Parse(t) ==
  /\ task[t].pc = "parse"
  /\ LET tk == task[t]
     IN IF tk.op = "getSiteConfig"
        THEN /\ IF ~tk.seen.exists THEN ConfigMissing(t)
                ELSE IF ~tk.seen.text.complete
                THEN /\ task' = [task EXCEPT ![t] = Done(tk, "SyntaxError", EmptyDoc)]
                     /\ UNCHANGED siteConfigCache
                ELSE IF isDev
                THEN /\ task' = [task EXCEPT ![t].pc = "stat again",
                                             ![t].text = tk.seen.text]
                     /\ UNCHANGED siteConfigCache
                ELSE /\ siteConfigCache' = Entry(FALSE, tk.seen.text.doc, 0)
                     /\ task' = [task EXCEPT ![t] = Configured(tk, FALSE, tk.seen.text.doc)]
             /\ UNCHANGED <<sitesCache, sitesCacheMtime, objs>>
        ELSE /\ IF ~tk.seen.exists
                THEN ReturnEmpty(t, tk, sitesCache, sitesCacheMtime)
                ELSE IF ~tk.seen.text.complete
                THEN SetRegistry(sitesCache, sitesCacheMtime,
                                 [task EXCEPT ![t] = Done(tk, "SyntaxError", EmptyDoc)],
                                 objs)
                ELSE LET ref == NewObject(t)
                         heap == [objs EXCEPT ![ref] = tk.seen.text.doc]
                     IN IF isDev
                        THEN SetRegistry(ref, sitesCacheMtime,
                                         [task EXCEPT ![t].pc = "stat again"], heap)
                        ELSE GoOn(t, tk, ref, sitesCacheMtime, ref, heap)
             /\ UNCHANGED siteConfigCache
  /\ UNCHANGED <<outside, isDev, fsys, extern, clock, calls>>

\* loadSites and getSiteConfig go on after the second fs.stat (development
\* mode): the mtime is remembered, and loadSites returns what sitesCache
\* holds now.
Remember(t) ==
  /\ task[t].pc = "remember"
  /\ LET tk == task[t]
     IN IF tk.op = "getSiteConfig"
        THEN /\ IF ~tk.seen.exists THEN ConfigMissing(t)
                ELSE /\ siteConfigCache' = Entry(FALSE, tk.text.doc, tk.seen.mtime)
                     /\ task' = [task EXCEPT ![t] = Configured(tk, FALSE, tk.text.doc)]
             /\ UNCHANGED <<sitesCache, sitesCacheMtime, objs>>
        ELSE /\ IF ~tk.seen.exists
                THEN ReturnEmpty(t, tk, sitesCache, sitesCacheMtime)
                ELSE GoOn(t, tk, sitesCache, tk.seen.mtime, sitesCache, objs)
             /\ UNCHANGED siteConfigCache
  /\ UNCHANGED <<outside, isDev, fsys, extern, clock, calls>>

\* saveSites, fs.writeFile(tempPath): the file is opened for writing, which
\* creates it or empties it.
OpenTemp(t) ==
  /\ task[t].pc = "open"
  /\ fsys' = [fsys EXCEPT ![SitesTmp] =
                [exists |-> TRUE, text |-> NoText, mtime |-> Stamp,
                 writers |-> @.writers \cup {t}]]
  /\ clock' = Stamp
  /\ task' = [task EXCEPT ![t].pc = "write"]
  /\ UNCHANGED <<outside, isDev, sitesCache, sitesCacheMtime, objs, siteConfigCache, extern, calls>>

\* saveSites, fs.writeFile(tempPath): the text reaches the file the task
\* has open, under whatever name that file has by now.
WriteTemp(t) ==
  /\ task[t].pc = "write"
  /\ fsys' = [f \in FileNames |->
                IF t \in fsys[f].writers
                THEN [fsys[f] EXCEPT !.text = task[t].text, !.mtime = Stamp,
                                     !.writers = @ \ {t}]
                ELSE fsys[f]]
  /\ clock' = Stamp
  /\ task' = [task EXCEPT ![t].pc = "rename"]
  /\ UNCHANGED <<outside, isDev, sitesCache, sitesCacheMtime, objs, siteConfigCache, extern, calls>>

\* saveSites, fs.rename(tempPath, sitesPath): the temporary file takes the
\* place of sites.json; ENOENT when another call renamed it away.
Rename(t) ==
  /\ task[t].pc = "rename"
  /\ IF fsys[SitesTmp].exists
     THEN /\ fsys' = [fsys EXCEPT ![SitesJson] = fsys[SitesTmp],
                                  ![SitesTmp] = Absent]
          /\ extern' = [extern EXCEPT ![SitesJson].overwritten = TRUE]
          /\ SetRegistry(sitesCache, sitesCacheMtime,
                         [task EXCEPT ![t].pc = "saved"], objs)
     ELSE /\ SetRegistry(sitesCache, sitesCacheMtime,
                         [task EXCEPT ![t] = Done(@, "ENOENT", objs[@.data])], objs)
          /\ UNCHANGED <<fsys, extern>>
  /\ UNCHANGED <<outside, isDev, siteConfigCache, clock, calls>>

\* saveSites goes on after the rename: sitesCache = data, and the operation
\* returns (createSite after creating the site's directories).
Saved(t) ==
  /\ task[t].pc = "saved"
  /\ SetRegistry(task[t].data, sitesCacheMtime,
                 [task EXCEPT ![t] = Done(@, "ok", objs[@.data])], objs)
  /\ UNCHANGED <<outside, isDev, fsys, siteConfigCache, extern, clock, calls>>

\* saveSites throws: fs.writeFile(tempPath) fails before or after it has
\* opened the temporary file, or fs.rename fails and leaves both files as
\* they are.  The mutator lets the error through to its caller.
SaveFails(t) ==
  /\ task[t].pc \in {"open", "write", "rename"}
  /\ fsys' = [f \in FileNames |-> [fsys[f] EXCEPT !.writers = @ \ {t}]]
  /\ SetRegistry(sitesCache, sitesCacheMtime,
                 [task EXCEPT ![t] = Done(@, "EIO", objs[@.data])], objs)
  /\ UNCHANGED <<outside, isDev, siteConfigCache, extern, clock, calls>>

\* invalidateSitesCache()
invalidateSitesCache ==
  /\ sitesCache # 0 \/ extern[SitesJson].edits > 0
  /\ SetRegistry(0, 0, task, objs)
  /\ extern' = [extern EXCEPT ![SitesJson].invalidated = TRUE]
  /\ UNCHANGED <<outside, isDev, fsys, siteConfigCache, clock, calls>>

\* clearSiteConfigCache(sitePath)
clearSiteConfigCache ==
  /\ siteConfigCache.present \/ extern[SiteJson].edits > 0
  /\ siteConfigCache' = NoEntry
  /\ extern' = [extern EXCEPT ![SiteJson].invalidated = TRUE]
  /\ UNCHANGED <<outside, isDev, fsys, sitesCache, sitesCacheMtime, objs, task, clock, calls>>

\* sites.json is edited from outside the process, or a deployment with
\* another site.json is activated: the file is replaced in one step.
ExternalEdit(f, text) ==
  /\ f \in {SitesJson, SiteJson}
  /\ extern[f].edits < MaxEdits
  /\ text # fsys[f].text
  /\ fsys' = [fsys EXCEPT ![f] = [exists |-> TRUE, text |-> text, mtime |-> Stamp,
                                  writers |-> {}]]
  /\ clock' = Stamp
  /\ extern' = [extern EXCEPT ![f] = [edits |-> @.edits + 1, text |-> text,
                                      invalidated |-> FALSE, overwritten |-> FALSE]]
  /\ UNCHANGED <<outside, isDev, sitesCache, sitesCacheMtime, objs, siteConfigCache, task, calls>>

\* The texts an editor may leave in f.
EditsOf(f) ==
  IF f = SiteJson THEN ConfigTexts
  ELSE {Written(Edited(IF fsys[f].text.complete THEN fsys[f].text.doc ELSE EmptyDoc))}

\* The process dies and is started again: the calls in flight and the
\* caches are gone, the files are what the disk held at that moment.
Crash ==
  /\ \E t \in Tasks : task[t].pc \notin {"idle", "done"}
  /\ fsys' = [f \in FileNames |-> [fsys[f] EXCEPT !.writers = {}]]
  /\ SetRegistry(0, 0, [t \in Tasks |-> NoTask], objs)
  /\ siteConfigCache' = NoEntry
  /\ extern' = [f \in FileNames |->
                  IF extern[f].edits > 0 THEN [extern[f] EXCEPT !.invalidated = TRUE]
                  ELSE extern[f]]
  /\ UNCHANGED <<outside, isDev, clock, calls>>

\* The registry in trusted mode: reads and writes of sites.json, an outside
\* edit of it, the invalidation and a crash.
NextRegistry ==
  \/ \E t \in Tasks, op \in RegistryOps, host \in RegistryHosts : CallRegistry(t, op, host)
  \/ \E t \in Tasks :
       \/ DiskAnswers(t)
       \/ Parse(t)
       \/ OpenTemp(t)
       \/ WriteTemp(t)
       \/ Rename(t)
       \/ Saved(t)
  \/ invalidateSitesCache
  \/ \E text \in EditsOf(SitesJson) : ExternalEdit(SitesJson, text)
  \/ Crash

\* The operations that write the registry without ever taking a site out of
\* it, and the hosts they are called with: one that is registered and one
\* that is not.
WriteOps == {"createSite", "updateSite", "updateSiteEnv"}

WriteHosts == {HostA, HostAuth}

\* The registry under writes alone: no outside edit, no crash.
NextWrites ==
  \/ \E t \in Tasks, op \in WriteOps, host \in WriteHosts : CallRegistry(t, op, host)
  \/ \E t \in Tasks :
       \/ DiskAnswers(t)
       \/ Parse(t)
       \/ OpenTemp(t)
       \/ WriteTemp(t)
       \/ Rename(t)
       \/ Saved(t)
  \/ invalidateSitesCache

\* The registry under calls made one after the other on a disk that may
\* fail a write or a rename.
NextFaults ==
  \/ \E t \in Tasks, op \in RegistryOps, host \in WriteHosts :
       /\ \A u \in Tasks : task[u].pc \in {"idle", "done"}
       /\ CallRegistry(t, op, host)
  \/ \E t \in Tasks :
       \/ DiskAnswers(t)
       \/ Parse(t)
       \/ OpenTemp(t)
       \/ WriteTemp(t)
       \/ Rename(t)
       \/ Saved(t)
       \/ SaveFails(t)
  \/ invalidateSitesCache

\* The two caches under reads: loadSites and getSiteConfig, outside changes
\* of both files and both invalidations.
NextCaches ==
  \/ \E t \in Tasks : CallRegistry(t, "loadSites", HostA)
  \/ \E t \in Tasks : CallGetSiteConfig(t)
  \/ \E t \in Tasks :
       \/ DiskAnswers(t)
       \/ Compare(t)
       \/ Parse(t)
       \/ Remember(t)
  \/ invalidateSitesCache
  \/ clearSiteConfigCache
  \/ \E f \in {SitesJson, SiteJson} : \E text \in EditsOf(f) : ExternalEdit(f, text)

\* ------------------------------------------------------------------------
\* Request and deploy logs (lib/logs.js)
\* ------------------------------------------------------------------------

\* The two buffers: requestLogs and deployLogs.
Kinds == {"request", "deploy"}

\* The hosts requests are logged for.
LogHosts == {HostA, HostAuth}

\* The hosts deploys are logged for.
DeployHosts == {HostA}

\* Who runs a flush: the callback of either timer, or shutdown().
Flushers == {"requestTimer", "deployTimer", "shutdown"}

\* MAX_REQUEST_LOGS in flushRequestLogs, MAX_DEPLOY_LOGS in flushDeployLogs
MaxLogs(kind) == IF kind = "request" THEN MAX_REQUEST_LOGS ELSE MAX_DEPLOY_LOGS

\* The delay logRequest and logDeploy pass to setTimeout.
FlushInterval(kind) ==
  IF kind = "request" THEN REQUEST_FLUSH_INTERVAL ELSE DEPLOY_FLUSH_INTERVAL

\* The flusher a timer's callback runs as.
TimerFlusher(kind) == IF kind = "request" THEN "requestTimer" ELSE "deployTimer"

\* A log file that does not exist.
NoLogFile == [exists |-> FALSE, complete |-> FALSE, list |-> <<>>, flushed |-> {}]

\* The entries of a list.
Entries(list) == {list[i] : i \in 1..Len(list)}

\* A log file holding the JSON of list; `flushed` keeps every entry a write
\* has ever put into the file.
LogFileOf(list) ==
  [exists |-> TRUE, complete |-> TRUE, list |-> list, flushed |-> Entries(list)]

\* A list at its cap, newest first, as earlier flushes of one entry each left
\* it.  Entries are numbered in the order they were logged; the entries of
\* earlier runs of the server have the numbers 0, -1, -2, ...
FullList(kind) == [i \in 1..MaxLogs(kind) |-> 1 - i]

\* A flusher that is not running.
NoFlush ==
  [pc |-> "idle", kind |-> "request", at |-> 0, existing |-> <<>>,
   combined |-> <<>>, before |-> 0]

requestLogs == logs["request"]

deployLogs == logs["deploy"]

requestFlushTimer == flushTimer["request"]

deployFlushTimer == flushTimer["deploy"]

\* What no operation of lib/logs.js changes.
beyondLogs == <<diskVars, hubVars, regVars, pathVars, req, pc, resp, did, probes, fnVars>>

LogIdle ==
  /\ logs = [kind \in Kinds |-> <<>>]
  /\ flushTimer = [kind \in Kinds |-> 0]
  /\ timeouts = {}
  /\ now = 0
  /\ logFile = [kind \in Kinds |-> [host \in LogHosts |-> NoLogFile]]
  /\ flush = [f \in Flushers |-> NoFlush]
  /\ logged = <<>>
  /\ logOp = [op |-> "none", kind |-> "request"]

\* process.exit(0) follows the return of shutdown() (server.js).
Running == flush["shutdown"].pc # "returned"

\* A Map is the list of its entries in insertion order; an entry that was
\* removed stays in the list as a dead one, which is what an iterator that is
\* under way steps over.
\* map.has(host)
Has(map, host) == \E i \in 1..Len(map) : map[i].live /\ map[i].host = host

\* map.size
Size(map) == Cardinality({i \in 1..Len(map) : map[i].live})

\* if (!map.has(host)) map.set(host, []); map.get(host).push(entry)
Push(map, host, entry) ==
  IF Has(map, host)
  THEN [i \in 1..Len(map) |->
          IF map[i].live /\ map[i].host = host
          THEN [map[i] EXCEPT !.entries = Append(@, entry)]
          ELSE map[i]]
  ELSE Append(map, [host |-> host, entries |-> <<entry>>, live |-> TRUE])

\* map.clear()
Clear(map) == [i \in 1..Len(map) |-> [map[i] EXCEPT !.live = FALSE]]

\* The position `for (const [host, entries] of map)` yields after position
\* at; 0 when the iterator is done.
NextEntry(map, at) ==
  LET later == {i \in (at + 1)..Len(map) : map[i].live}
  IN IF later = {} THEN 0 ELSE CHOOSE i \in later : \A j \in later : i <= j

\* list.slice(0, n)
SliceTo(list, n) == SubSeq(list, 1, IF Len(list) < n THEN Len(list) ELSE n)

\* [...entries, ...existing].slice(0, MAX)
Combined(kind, entries, existing) == SliceTo(entries \o existing, MaxLogs(kind))

\* The module state a flush reads and writes between two awaits.
Here == [logs |-> logs, flushTimer |-> flushTimer, timeouts |-> timeouts, flush |-> flush]

Become(s) ==
  /\ logs' = s.logs
  /\ flushTimer' = s.flushTimer
  /\ timeouts' = s.timeouts
  /\ flush' = s.flush

RECURSIVE flushLogs(_, _, _)
\* The return of flusher f's flush of one buffer.  shutdown() awaits
\* flushRequestLogs() and then calls flushDeployLogs(); a timer's callback is
\* over.
EndFlush(f, kind, s) ==
  IF f = "shutdown" /\ kind = "request"
  THEN flushLogs(f, "deploy", s)
  ELSE [s EXCEPT !.flush[f] =
          [NoFlush EXCEPT !.pc = IF f = "shutdown" THEN "returned" ELSE "idle",
                          !.before = s.flush[f].before]]

\* flushRequestLogs / flushDeployLogs up to the first await: the timer is
\* cleared, an empty buffer returns at once, otherwise mkdir is called.
flushLogs(f, kind, s) ==
  LET cleared == [s EXCEPT !.timeouts = {p \in @ : p.handle # s.flushTimer[kind]},
                           !.flushTimer[kind] = 0]
  IN IF Size(s.logs[kind]) = 0
     THEN EndFlush(f, kind, cleared)
     ELSE [cleared EXCEPT !.flush[f] =
             [NoFlush EXCEPT !.pc = "mkdir", !.kind = kind,
                             !.before = s.flush[f].before]]

flushRequestLogs(f, s) == flushLogs(f, "request", s)

flushDeployLogs(f, s) == flushLogs(f, "deploy", s)

\* The loop of a flush moves on: the next entry of the Map is read from disk,
\* or the loop is over, the Map is cleared and the flush returns.
Iterate(f, s) ==
  LET kind == s.flush[f].kind
      i == NextEntry(s.logs[kind], s.flush[f].at)
  IN IF i = 0
     THEN EndFlush(f, kind, [s EXCEPT !.logs[kind] = Clear(@)])
     ELSE [s EXCEPT !.flush[f].at = i, !.flush[f].pc = "readFile"]

\* The file flusher f is at.
FlushHost(f) == logs[flush[f].kind][flush[f].at].host

\* logRequest and logDeploy as they would be with a setTimeout on every call.
BufferRearms(kind, host) ==
  LET entry == Len(logged) + 1
  IN /\ Running
     /\ Len(logged) < MaxEntries
     /\ logs' = [logs EXCEPT ![kind] = Push(@, host, entry)]
     /\ flushTimer' = [flushTimer EXCEPT ![kind] = entry]
     /\ timeouts' = timeouts \cup
          {[handle |-> entry, kind |-> kind, due |-> now + FlushInterval(kind)]}
     /\ logged' = Append(logged, [kind |-> kind, host |-> host, at |-> now])
     /\ logOp' = [op |-> "log", kind |-> kind]
     /\ UNCHANGED <<now, logFile, flush, beyondLogs>>

\* logRequest(host, entry) and logDeploy(host, entry): the entry is pushed and
\* the timer is armed when none is.
Buffer(kind, host) ==
  LET entry == Len(logged) + 1
  IN /\ Running
     /\ Len(logged) < MaxEntries
     /\ logs' = [logs EXCEPT ![kind] = Push(@, host, entry)]
     /\ IF flushTimer[kind] = 0
        THEN /\ flushTimer' = [flushTimer EXCEPT ![kind] = entry]
             /\ timeouts' = timeouts \cup
                  {[handle |-> entry, kind |-> kind, due |-> now + FlushInterval(kind)]}
        ELSE UNCHANGED <<flushTimer, timeouts>>
     /\ logged' = Append(logged, [kind |-> kind, host |-> host, at |-> now])
     /\ logOp' = [op |-> "log", kind |-> kind]
     /\ UNCHANGED <<now, logFile, flush, beyondLogs>>

logRequest(host) == Buffer("request", host)

logDeploy(host) == Buffer("deploy", host)

\* A timer is due and its callback, flushRequestLogs or flushDeployLogs, runs
\* up to its first await.
FireTimer(kind) ==
  /\ Running
  /\ flush[TimerFlusher(kind)].pc = "idle"
  /\ \E p \in timeouts :
       /\ p.kind = kind
       /\ p.due <= now
       /\ Become(flushLogs(TimerFlusher(kind), kind, [Here EXCEPT !.timeouts = @ \ {p}]))
  /\ logOp' = [op |-> "fire", kind |-> kind]
  /\ UNCHANGED <<now, logFile, logged, beyondLogs>>

\* shutdown(), up to its first await that has to wait.
shutdown ==
  /\ flush["shutdown"].pc = "idle"
  /\ Become(flushRequestLogs("shutdown",
                             [Here EXCEPT !.flush["shutdown"].before = Len(logged)]))
  /\ logOp' = [op |-> "shutdown", kind |-> "request"]
  /\ UNCHANGED <<now, logFile, logged, beyondLogs>>

\* fs.mkdir has answered: the loop starts.
AfterMkdir(f) ==
  /\ Running
  /\ flush[f].pc = "mkdir"
  /\ Become(Iterate(f, Here))
  /\ logOp' = [op |-> "mkdir", kind |-> flush[f].kind]
  /\ UNCHANGED <<now, logFile, logged, beyondLogs>>

\* fs.readFile reads the host's list.  A file that is missing, or one a
\* writeFile has truncated and not yet filled, leaves `existing` empty: the
\* catch swallows ENOENT and the SyntaxError alike.
ReadLog(f) ==
  LET file == logFile[flush[f].kind][FlushHost(f)]
  IN /\ Running
     /\ flush[f].pc = "readFile"
     /\ flush' = [flush EXCEPT ![f].pc = "combine",
                               ![f].existing = IF file.exists /\ file.complete
                                               THEN file.list ELSE <<>>]
     /\ logOp' = [op |-> "readFile", kind |-> flush[f].kind]
     /\ UNCHANGED <<logs, flushTimer, timeouts, now, logFile, logged, beyondLogs>>

\* The continuation of the read: the list to write is computed from the
\* entries the host's array holds now, and writeFile is called.
Combine(f) ==
  /\ Running
  /\ flush[f].pc = "combine"
  /\ flush' = [flush EXCEPT ![f].pc = "open",
                            ![f].combined = Combined(flush[f].kind,
                                                     logs[flush[f].kind][flush[f].at].entries,
                                                     flush[f].existing)]
  /\ logOp' = [op |-> "combine", kind |-> flush[f].kind]
  /\ UNCHANGED <<logs, flushTimer, timeouts, now, logFile, logged, beyondLogs>>

\* fs.writeFile opens the file, which truncates it.
OpenLog(f) ==
  /\ Running
  /\ flush[f].pc = "open"
  /\ logFile' = [logFile EXCEPT ![flush[f].kind][FlushHost(f)] =
                   [@ EXCEPT !.exists = TRUE, !.complete = FALSE, !.list = <<>>]]
  /\ flush' = [flush EXCEPT ![f].pc = "write"]
  /\ logOp' = [op |-> "open", kind |-> flush[f].kind]
  /\ UNCHANGED <<logs, flushTimer, timeouts, now, logged, beyondLogs>>

\* fs.writeFile writes the list from offset 0.  Over a longer list another
\* writeFile has written since the truncation, what is left is no JSON.
WriteLog(f) ==
  LET file == logFile[flush[f].kind][FlushHost(f)]
  IN /\ Running
     /\ flush[f].pc = "write"
     /\ logFile' = [logFile EXCEPT ![flush[f].kind][FlushHost(f)] =
                      IF Len(file.list) > Len(flush[f].combined)
                      THEN [file EXCEPT !.complete = FALSE]
                      ELSE [LogFileOf(flush[f].combined) EXCEPT
                              !.flushed = file.flushed \cup Entries(flush[f].combined)]]
     /\ flush' = [flush EXCEPT ![f].pc = "written"]
     /\ logOp' = [op |-> "writeFile", kind |-> flush[f].kind]
     /\ UNCHANGED <<logs, flushTimer, timeouts, now, logged, beyondLogs>>

\* The continuation of the write: the loop moves on.
AfterWrite(f) ==
  /\ Running
  /\ flush[f].pc = "written"
  /\ Become(Iterate(f, Here))
  /\ logOp' = [op |-> "written", kind |-> flush[f].kind]
  /\ UNCHANGED <<now, logFile, logged, beyondLogs>>

\* fs.mkdir or fs.writeFile rejects (before the file is opened, or after it
\* was truncated): the catch of the flush logs the error and the flush
\* returns without clearing the buffer.
FlushFails(f) ==
  /\ Running
  /\ flush[f].pc \in {"mkdir", "open", "write"}
  /\ Become(EndFlush(f, flush[f].kind, Here))
  /\ logOp' = [op |-> "failed", kind |-> flush[f].kind]
  /\ UNCHANGED <<now, logFile, logged, beyondLogs>>

\* Time passes while no flush is under way, by at most Quantum and never past
\* a timer that is due.
TimePasses ==
  LET next == {now + Quantum} \cup {p.due : p \in timeouts}
  IN /\ Running
     /\ timeouts # {}
     /\ \A p \in timeouts : now < p.due
     /\ \A f \in Flushers : flush[f].pc = "idle"
     /\ now' = CHOOSE t \in next : \A u \in next : t <= u
     /\ logOp' = [op |-> "time", kind |-> "request"]
     /\ UNCHANGED <<logs, flushTimer, timeouts, logFile, flush, logged, beyondLogs>>

NextLogs ==
  \/ \E host \in LogHosts : logRequest(host)
  \/ \E host \in DeployHosts : logDeploy(host)
  \/ \E kind \in Kinds : FireTimer(kind)
  \/ shutdown
  \/ \E f \in Flushers :
       \/ AfterMkdir(f)
       \/ ReadLog(f)
       \/ Combine(f)
       \/ OpenLog(f)
       \/ WriteLog(f)
       \/ AfterWrite(f)
  \/ TimePasses

\* The request buffer of two hosts, its timer and shutdown() on a disk that
\* may fail.
NextLogFaults ==
  \/ \E host \in LogHosts : logRequest(host)
  \/ FireTimer("request")
  \/ shutdown
  \/ \E f \in Flushers :
       \/ AfterMkdir(f)
       \/ ReadLog(f)
       \/ Combine(f)
       \/ OpenLog(f)
       \/ WriteLog(f)
       \/ AfterWrite(f)
       \/ FlushFails(f)
  \/ TimePasses

\* ------------------------------------------------------------------------
\* Route cache of findFunctionFile (lib/functions.js)
\* ------------------------------------------------------------------------

\* path.join(sitePath, "_functions") of the one site under test.
FunctionsDir == PathJoin(<<Root, FunctionsDirName>>)

\* const cacheKey = `${functionsDir}:${reqPath}`
CacheKey(functionsDir, reqPath) == functionsDir \o <<":">> \o reqPath

\* path.join(DATA_DIR, "sites", siteHost)
SitePrefix(siteHost) == PathJoin(<<DataDir, <<"s", "i", "t", "e", "s">>, siteHost>>)

\* The function files of two deployments of the site: the second adds
\* /_functions/hello.js.
TreeOld == {M_userMe}

TreeNew == {M_userMe, M_hello}

\* The request paths findFunctionFile is called with.
LookupPaths == {T_hello, T_userMe}

\* The hosts clearFunctionCache is called with; the empty one stands for a
\* call without argument.
ClearHosts == {<<>>, HostA, HostAuth}

\* A call of findFunctionFile that is not running.
NoLookup == [pc |-> "idle", reqPath |-> <<>>, result |-> NoRoute, expect |-> FALSE]

\* What no step of findFunctionFile changes.
beyondPaths ==
  <<sites, siteConfig, redirectsFile, hubVars, regVars, logVars, req, pc, resp, did,
    probes, fnVars>>

PathIdle ==
  /\ functionPathCache = <<>>
  /\ lookup = [t \in Tasks |-> NoLookup]
  /\ pathOp = [calls |-> 0, deploys |-> 0, deployed |-> FALSE, cleared |-> FALSE]

\* functionPathCache.set(cacheKey, result)
SetPath(cache, key, result) ==
  [k \in DOMAIN cache \cup {key} |-> IF k = key THEN result ELSE cache[k]]

\* findFunctionFile(functionsDir, reqPath) up to its await: outside
\* development mode a cached result, null included, is returned at once.
CallFindFunctionFileCached(t, reqPath) ==
  LET key == CacheKey(FunctionsDir, reqPath)
      began == [NoLookup EXCEPT !.reqPath = reqPath,
                                !.expect = isDev \/ (pathOp.deployed /\ pathOp.cleared)]
  IN /\ lookup[t].pc \in {"idle", "done"}
     /\ pathOp.calls < MaxCalls
     /\ pathOp' = [pathOp EXCEPT !.calls = @ + 1]
     /\ lookup' = [lookup EXCEPT ![t] =
                     IF ~isDev /\ key \in DOMAIN functionPathCache
                     THEN [began EXCEPT !.pc = "done", !.result = functionPathCache[key]]
                     ELSE [began EXCEPT !.pc = "resolve"]]
     /\ UNCHANGED <<functionPathCache, files, beyondPaths>>

\* findFunctionFileUncached looks at the directory tree.
ResolvePath(t) ==
  /\ lookup[t].pc = "resolve"
  /\ \E order \in ScanOrders :
       lookup' = [lookup EXCEPT ![t].pc = "store",
                                ![t].result = findFunctionFileUncached(
                                                files, Root, FunctionsDir,
                                                lookup[t].reqPath, order)]
  /\ UNCHANGED <<functionPathCache, pathOp, files, beyondPaths>>

\* findFunctionFile goes on after the await: outside development mode the
\* result is cached; it is returned.
StorePath(t) ==
  /\ lookup[t].pc = "store"
  /\ functionPathCache' =
       IF isDev THEN functionPathCache
       ELSE SetPath(functionPathCache, CacheKey(FunctionsDir, lookup[t].reqPath),
                    lookup[t].result)
  /\ lookup' = [lookup EXCEPT ![t].pc = "done"]
  /\ UNCHANGED <<pathOp, files, beyondPaths>>

\* clearFunctionCache(siteHost): every key, or the keys under the site's
\* directory.
clearFunctionCache(siteHost) ==
  LET kept == IF siteHost = <<>> THEN {}
              ELSE {k \in DOMAIN functionPathCache : ~StartsWith(k, SitePrefix(siteHost))}
  IN /\ functionPathCache' = [k \in kept |-> functionPathCache[k]]
     /\ pathOp' = [pathOp EXCEPT !.cleared =
                     @ \/ (pathOp.deployed /\ siteHost \in {<<>>, HostA})]
     /\ <<functionPathCache, pathOp>>' # <<functionPathCache, pathOp>>
     /\ UNCHANGED <<lookup, files, beyondPaths>>

\* Another deployment of the site is activated: a function file appears or
\* disappears.
DeployFunctions ==
  /\ pathOp.deploys < MaxEdits
  /\ files' = IF files = TreeOld THEN TreeNew ELSE TreeOld
  /\ pathOp' = [pathOp EXCEPT !.deploys = @ + 1, !.deployed = TRUE, !.cleared = FALSE]
  /\ lookup' = [t \in Tasks |-> [lookup[t] EXCEPT !.expect = FALSE]]
  /\ UNCHANGED <<functionPathCache, beyondPaths>>

NextPaths ==
  \/ \E t \in Tasks, reqPath \in LookupPaths : CallFindFunctionFileCached(t, reqPath)
  \/ \E t \in Tasks : ResolvePath(t)
  \/ \E t \in Tasks : StorePath(t)
  \/ \E siteHost \in ClearHosts : clearFunctionCache(siteHost)
  \/ DeployFunctions

\* ------------------------------------------------------------------------
\* handleRequest (lib/router.js), one action per stage
\* ------------------------------------------------------------------------

RouterIdle ==
  /\ req = [r \in Slots |-> NoRequest]
  /\ pc = [r \in Slots |-> "idle"]
  /\ resp = [r \in Slots |-> Null]
  /\ did = [r \in Slots |-> {}]
  /\ probes = [r \in Slots |-> {}]
  /\ route = [r \in Slots |-> NoRoute]
  /\ race = [r \in Slots |-> "none"]
  /\ handler = [r \in Slots |-> "none"]
  /\ timer = [r \in Slots |-> -1]
  /\ waited = [r \in Slots |-> 0]
  /\ HubIdle

\* Nothing in flight anywhere.
Idle ==
  /\ RouterIdle
  /\ RegistryIdle
  /\ LogIdle
  /\ PathIdle

\* The deployment, with its custom 404 page or without it.
Deployments == {SiteFiles, SiteFiles \ {F_404}}

Init ==
  /\ sites = Registry
  /\ siteConfig = Configs
  /\ files \in Deployments
  /\ redirectsFile = SiteRedirects
  /\ Idle

\* url.pathname, which becomes ctx.path
ReqPath(r) == UrlPathname(req[r].target)

\* ctx.siteConfig: `siteConfig || {}`
ConfigOf(r) ==
  IF req[r].host \in DOMAIN siteConfig THEN siteConfig[req[r].host] ELSE EmptyConfig

\* The serialisation of the URL object handed to Response.redirect.
Href(url) == <<"h", "t", "t", "p", ":", "/", "/">> \o url.host \o url.path \o url.search

\* `return response` from handleRequest
Return(r, response) ==
  /\ resp' = [resp EXCEPT ![r] = response]
  /\ pc' = [pc EXCEPT ![r] = "done"]

\* Falling through to the next stage, or keeping a response for a later one.
Goto(r, stage) == pc' = [pc EXCEPT ![r] = stage]

Mark(r, stage) == did' = [did EXCEPT ![r] = @ \cup {stage}]

\* A request arrives: handleRequest(req, options) is called.
Receive(r, inputs) ==
  /\ pc[r] = "idle"
  /\ \E q \in inputs : req' = [req EXCEPT ![r] = q]
  /\ Goto(r, "lookup")
  /\ UNCHANGED <<envVars, resp, did, probes, fnVars>>

\* getSiteByHost, then the 404 and 503 returns.
Lookup(r) ==
  LET site == getSiteByHost(sites, req[r].host)
  IN /\ pc[r] = "lookup"
     /\ IF ~site.found
        THEN Return(r, WithRequestId(Response(404, "lookup", <<>>, <<>>, {})))
        ELSE IF ~site.enabled
             THEN Return(r, WithRequestId(Response(503, "lookup", <<>>, <<>>, {})))
             ELSE Goto(r, "normalize") /\ UNCHANGED resp
     /\ UNCHANGED <<envVars, req, did, probes, fnVars>>

\* Trailing slash normalization.  new URL(normalized, url.origin) throws for
\* a reference without host; handleRequest then rejects ("thrown").
Normalize(r) ==
  LET path == ReqPath(r)
      normalized == DropLast(path, 1) \o req[r].search
      target == UrlResolve(normalized, req[r].host)
  IN /\ pc[r] = "normalize"
     /\ IF path # <<"/">> /\ EndsWith(path, <<"/">>)
        THEN IF target.ok
             THEN Return(r, WithRequestId(Response(301, "normalize", Href(target), <<>>, {})))
             ELSE Goto(r, "thrown") /\ UNCHANGED resp
        ELSE Goto(r, "auth") /\ UNCHANGED resp
     /\ UNCHANGED <<envVars, req, did, probes, fnVars>>

\* The Basic auth check.
Auth(r) ==
  LET site == getSiteByHost(sites, req[r].host)
      result == checkBasicAuth(req[r].authorization, site.env)
  IN /\ pc[r] = "auth"
     /\ IF NeedsAuth(ConfigOf(r).auth, ReqPath(r))
        THEN /\ Mark(r, "auth")
             /\ IF result # Null
                THEN Return(r, WithRequestId(result))
                ELSE Goto(r, "preflight") /\ UNCHANGED resp
        ELSE Goto(r, "preflight") /\ UNCHANGED <<resp, did>>
     /\ UNCHANGED <<envVars, req, probes, fnVars>>

\* A router without the preflight return: what C14 must tell apart from
\* Preflight.
NoPreflight(r) ==
  /\ pc[r] = "preflight"
  /\ Goto(r, "redirects")
  /\ UNCHANGED <<resp, did>>
  /\ UNCHANGED <<envVars, req, probes, fnVars>>

\* The CORS preflight.
Preflight(r) ==
  /\ pc[r] = "preflight"
  /\ IF req[r].method = "OPTIONS" /\ ConfigOf(r).cors.configured
     THEN /\ Mark(r, "preflight")
          /\ Return(r, WithRequestId(handleCors(ConfigOf(r).cors, req[r].origin)))
     ELSE Goto(r, "redirects") /\ UNCHANGED <<resp, did>>
  /\ UNCHANGED <<envVars, req, probes, fnVars>>

\* The _redirects check.
Redirects(r) ==
  LET redirect == handleRedirects(redirectsFile, ReqPath(r))
  IN /\ pc[r] = "redirects"
     /\ Mark(r, "redirects")
     /\ IF redirect # Null
        THEN Return(r, WithRequestId(redirect))
        ELSE Goto(r, "static") /\ UNCHANGED resp
     /\ UNCHANGED <<envVars, req, probes, fnVars>>

\* A router that goes to the function dispatcher without asking the static
\* resolver: what C15 must tell apart from Static.
StaticSkipped(r) ==
  /\ pc[r] = "static"
  /\ Mark(r, "static")
  /\ Goto(r, "function")
  /\ UNCHANGED <<envVars, req, resp, probes, fnVars>>

\* Static files are tried first.
Static(r) ==
  LET served == serveStatic(files, SitePath(req[r].host), ReqPath(r))
  IN /\ pc[r] = "static"
     /\ Mark(r, "static")
     /\ probes' = [probes EXCEPT ![r] = served.probed]
     /\ IF served.response # Null
        THEN resp' = [resp EXCEPT ![r] = served.response] /\ Goto(r, "decorate")
        ELSE Goto(r, "function") /\ UNCHANGED resp
     /\ UNCHANGED <<envVars, req, fnVars>>

\* handleFunction up to the choice of the handler: the route is resolved
\* (with the directory scans in some order), the module loaded and the
\* export for the method picked ("" when there is none).
LoadedHandler(found, sitePath, method) ==
  [route |-> found,
   handler |-> IF found.found
               THEN SelectHandler(ModuleExports(Slice(found.path, Len(sitePath))),
                                  MethodName(method))
               ELSE ""]

HandlerFor(host, reqPath, method, order) ==
  LoadedHandler(ResolveFunction(files, SitePath(host), reqPath, order),
                SitePath(host), method)

\* The function fallback: handleFunction returns null when the route, the
\* module or the handler is missing.
FunctionResolve(r) ==
  /\ pc[r] = "function"
  /\ Mark(r, "function")
  /\ \E order \in ScanOrders :
       \E chosen \in {HandlerFor(req[r].host, ReqPath(r), req[r].method, order)} :
          /\ route' = [route EXCEPT ![r] = chosen.route]
          /\ IF chosen.handler = "" THEN Goto(r, "notfound") ELSE Goto(r, "invoke")
  /\ UNCHANGED <<envVars, req, resp, probes, race, handler, timer, waited>>

\* executeWithTimeout(handler(funcReq), timeout): the handler is called; it
\* throws (no timer is set, the catch block answers) or returns a promise,
\* which is raced against a timer of `timeout` ms.
Invoke(r, thrown) ==
  /\ pc[r] = "invoke"
  /\ Mark(r, "handler")
  /\ \/ \E message \in thrown :
          /\ resp' = [resp EXCEPT ![r] = FunctionError(message)]
          /\ Goto(r, "decorate")
          /\ UNCHANGED <<race, handler, timer, waited>>
     \/ /\ handler' = [handler EXCEPT ![r] = "pending"]
        /\ race' = [race EXCEPT ![r] = "pending"]
        /\ timer' = [timer EXCEPT ![r] = TimeoutOf(ConfigOf(r))]
        /\ waited' = [waited EXCEPT ![r] = 0]
        /\ Goto(r, "wait")
        /\ UNCHANGED resp
  /\ UNCHANGED <<envVars, req, probes, route>>

\* A settlement that always decides the answer, also after the timer has:
\* what C16 must tell apart from Settle.
SettleAlways(r, state, response) ==
  /\ handler[r] = "pending"
  /\ handler' = [handler EXCEPT ![r] = state]
  /\ race' = [race EXCEPT ![r] = "settled"]
  /\ resp' = [resp EXCEPT ![r] = response]
  /\ Goto(r, "decorate")
  /\ UNCHANGED <<envVars, req, did, probes, route, timer, waited>>

\* The handler's promise settles with `response`.  It decides the race only
\* if the timer has not: a settled race ignores it.
Settle(r, state, response) ==
  /\ handler[r] = "pending"
  /\ handler' = [handler EXCEPT ![r] = state]
  /\ IF race[r] = "pending"
     THEN /\ race' = [race EXCEPT ![r] = "settled"]
          /\ resp' = [resp EXCEPT ![r] = response]
          /\ Goto(r, "decorate")
     ELSE UNCHANGED <<race, resp, pc>>
  /\ UNCHANGED <<envVars, req, did, probes, route, timer, waited>>

HandlerResolve(r, results) ==
  \E result \in results : Settle(r, "resolved", buildResponse(result))

HandlerReject(r, thrown) ==
  \E message \in thrown : Settle(r, "rejected", FunctionError(message))

\* The timer of executeWithTimeout fires: it rejects the race with
\* Error("Function timeout") unless the handler settled it first.
TimerFire(r) ==
  /\ timer[r] = 0
  /\ timer' = [timer EXCEPT ![r] = -1]
  /\ IF race[r] = "pending"
     THEN /\ race' = [race EXCEPT ![r] = "settled"]
          /\ resp' = [resp EXCEPT ![r] = FunctionError("Function timeout")]
          /\ Mark(r, "timeout")
          /\ Goto(r, "decorate")
     ELSE UNCHANGED <<race, resp, did, pc>>
  /\ UNCHANGED <<envVars, req, probes, route, handler, waited>>

\* Time passes, by at most Quantum and never past a timer that is due.
AdvanceTime ==
  LET armed == {r \in Slots : timer[r] >= 0}
      step == IF \E r \in armed : timer[r] < Quantum
              THEN CHOOSE d \in {timer[r] : r \in armed} :
                     \A r \in armed : d <= timer[r]
              ELSE Quantum
  IN /\ armed # {}
     /\ \A r \in armed : timer[r] > 0
     /\ timer' = [r \in Slots |-> IF r \in armed THEN timer[r] - step ELSE timer[r]]
     /\ waited' = [r \in Slots |->
                     IF race[r] = "pending" THEN waited[r] + step ELSE waited[r]]
     /\ UNCHANGED <<envVars, req, pc, resp, did, probes, route, race, handler>>

\* Neither static file nor function: the 404 page.
NotFound(r) ==
  /\ pc[r] = "notfound"
  /\ Mark(r, "error")
  /\ resp' = [resp EXCEPT ![r] = serveError(files, SitePath(req[r].host), 404)]
  /\ Goto(r, "decorate")
  /\ UNCHANGED <<envVars, req, probes, fnVars>>

\* Security headers, CORS headers, the request id and the log entry.
Decorate(r) ==
  LET secured == addSecurityHeaders(resp[r])
      cors == ConfigOf(r).cors
      shared == IF cors.configured
                THEN addCorsHeaders(secured, cors, req[r].origin)
                ELSE secured
  IN /\ pc[r] = "decorate"
     /\ Mark(r, "log")
     /\ Return(r, WithRequestId(shared))
     /\ UNCHANGED <<envVars, req, probes, fnVars>>

\* The response has gone out and the timer of the call, if one was set, has
\* fired: the activation is over.  A handler still pending is abandoned.
Recycle(r) ==
  /\ pc[r] \in {"done", "thrown"}
  /\ timer[r] = -1
  /\ req' = [req EXCEPT ![r] = NoRequest]
  /\ pc' = [pc EXCEPT ![r] = "idle"]
  /\ resp' = [resp EXCEPT ![r] = Null]
  /\ did' = [did EXCEPT ![r] = {}]
  /\ probes' = [probes EXCEPT ![r] = {}]
  /\ route' = [route EXCEPT ![r] = NoRoute]
  /\ race' = [race EXCEPT ![r] = "none"]
  /\ handler' = [handler EXCEPT ![r] = "none"]
  /\ waited' = [waited EXCEPT ![r] = 0]
  /\ UNCHANGED <<envVars, timer>>

\* The stages of one activation.
Stage(r) ==
  \/ Lookup(r)
  \/ Normalize(r)
  \/ Auth(r)
  \/ Preflight(r)
  \/ Redirects(r)
  \/ Static(r)
  \/ FunctionResolve(r)
  \/ Invoke(r, Rejections)
  \/ TimerFire(r)
  \/ NotFound(r)
  \/ Decorate(r)
  \/ Recycle(r)

\* The router serving one request at a time, over every modelled request.
Next ==
  \/ Receive(1, Requests)
  \/ Stage(1)
  \/ HandlerResolve(1, Resolutions)
  \/ HandlerReject(1, Rejections)
  \/ AdvanceTime

Spec == Init /\ [][Next]_vars

InitHub ==
  /\ sites = Registry
  /\ siteConfig = Configs
  /\ files = SiteFiles
  /\ redirectsFile = SiteRedirects
  /\ Idle

\* The channel hub driven by every call and event, on its own.
SpecHub == InitHub /\ [][NextHub]_vars

\* The registry in either mode, with or without sites.json and site.json on
\* disk.
InitRegistry ==
  /\ sites = Registry
  /\ siteConfig = Configs
  /\ files = SiteFiles
  /\ redirectsFile = SiteRedirects
  /\ RouterIdle
  /\ LogIdle
  /\ PathIdle
  /\ isDev \in BOOLEAN
  /\ clock = IF isDev THEN 1 ELSE 0
  /\ \E sitesText \in {NoText, Written(DocA)}, siteText \in {NoText, Written(ConfigOld)} :
       fsys = [f \in FileNames |->
                 CASE f = SitesJson /\ sitesText.complete ->
                        [exists |-> TRUE, text |-> sitesText, mtime |-> clock, writers |-> {}]
                   [] f = SiteJson /\ siteText.complete ->
                        [exists |-> TRUE, text |-> siteText, mtime |-> clock, writers |-> {}]
                   [] OTHER -> Absent]
  /\ sitesCache = 0
  /\ sitesCacheMtime = 0
  /\ objs = [o \in Objects |-> EmptyDoc]
  /\ siteConfigCache = NoEntry
  /\ task = [t \in Tasks |-> NoTask]
  /\ extern = [f \in FileNames |-> NoEdit]
  /\ calls = 0

\* The registry of a process that is not in development mode.
InitTrusted == InitRegistry /\ ~isDev /\ ~fsys[SiteJson].exists

\* lib/sites.js under concurrent calls, outside edits and crashes.
SpecRegistry == InitTrusted /\ [][NextRegistry]_vars

\* lib/sites.js under overlapping writes.
SpecWrites == InitTrusted /\ [][NextWrites]_vars

\* lib/sites.js, one call at a time, on a disk that may fail.
SpecFaults == InitTrusted /\ [][NextFaults]_vars

\* The caches of lib/sites.js under concurrent reads and outside changes.
SpecCaches == InitRegistry /\ [][NextCaches]_vars

\* The log buffers of a server whose log files are either missing or at their
\* cap.
InitLogs ==
  /\ sites = Registry
  /\ siteConfig = Configs
  /\ files = SiteFiles
  /\ redirectsFile = SiteRedirects
  /\ RouterIdle
  /\ RegistryIdle
  /\ PathIdle
  /\ logs = [kind \in Kinds |-> <<>>]
  /\ flushTimer = [kind \in Kinds |-> 0]
  /\ timeouts = {}
  /\ now = 0
  /\ \E full \in BOOLEAN :
       logFile = [kind \in Kinds |-> [host \in LogHosts |->
                    IF full THEN LogFileOf(FullList(kind)) ELSE NoLogFile]]
  /\ flush = [f \in Flushers |-> NoFlush]
  /\ logged = <<>>
  /\ logOp = [op |-> "none", kind |-> "request"]

\* lib/logs.js under logging, the two timers and shutdown().
SpecLogs == InitLogs /\ [][NextLogs]_vars

\* The two timers: both buffers are logged to for one host, on a server that
\* starts without log files.
InitTimers ==
  /\ InitLogs
  /\ \A kind \in Kinds, host \in LogHosts : ~logFile[kind][host].exists

NextTimers ==
  \/ logRequest(HostA)
  \/ logDeploy(HostA)
  \/ \E kind \in Kinds : FireTimer(kind)
  \/ shutdown
  \/ \E f \in Flushers :
       \/ AfterMkdir(f)
       \/ ReadLog(f)
       \/ Combine(f)
       \/ OpenLog(f)
       \/ WriteLog(f)
       \/ AfterWrite(f)
  \/ TimePasses

\* lib/logs.js with the timers in view.
SpecTimers == InitTimers /\ [][NextTimers]_vars

\* The request log on a disk that may fail.
SpecLogFaults == InitTimers /\ [][NextLogFaults]_vars

\* The route cache in either mode, over either deployment.
InitPaths ==
  /\ sites = Registry
  /\ siteConfig = Configs
  /\ files \in {TreeOld, TreeNew}
  /\ redirectsFile = SiteRedirects
  /\ RouterIdle
  /\ LogIdle
  /\ PathIdle
  /\ isDev \in BOOLEAN
  /\ fsys = [f \in FileNames |-> Absent]
  /\ sitesCache = 0
  /\ sitesCacheMtime = 0
  /\ objs = [o \in Objects |-> EmptyDoc]
  /\ siteConfigCache = NoEntry
  /\ task = [t \in Tasks |-> NoTask]
  /\ extern = [f \in FileNames |-> NoEdit]
  /\ clock = 0
  /\ calls = 0

\* findFunctionFile under concurrent requests, deployments and
\* clearFunctionCache.
SpecPaths == InitPaths /\ [][NextPaths]_vars

\* ------------------------------------------------------------------------
\* Function requests in flight together
\* ------------------------------------------------------------------------

\* The router reaches handleFunction with a request that matched neither a
\* redirect rule nor a static file (the site is enabled and asks for no
\* credentials on the path), and handleFunction picks the handler.  The
\* activation takes the first free slot.
DispatchFunction(r) ==
  /\ pc[r] = "idle"
  /\ \A other \in Slots : other < r => pc[other] # "idle"
  /\ \E q \in FnRequests, order \in ScanOrders :
       \E chosen \in {HandlerFor(q.host, UrlPathname(q.target), q.method, order)} :
          /\ req' = [req EXCEPT ![r] = q]
          /\ route' = [route EXCEPT ![r] = chosen.route]
          /\ IF chosen.handler = "" THEN Goto(r, "notfound") ELSE Goto(r, "invoke")
  /\ did' = [did EXCEPT ![r] = {"redirects", "static", "function"}]
  /\ UNCHANGED <<envVars, resp, probes, race, handler, timer, waited>>

\* What the event loop does for an activation once its handler is chosen.
FnStage(r) ==
  \/ Invoke(r, FnRejections)
  \/ TimerFire(r)
  \/ Decorate(r)
  \/ Recycle(r)

\* Up to MaxInFlight function requests are served concurrently; each handler
\* may settle at any moment or never.
NextFn ==
  \/ \E r \in Slots : DispatchFunction(r)
  \/ \E r \in Slots : FnStage(r)
  \/ \E r \in Slots : HandlerResolve(r, FnResolutions)
  \/ AdvanceTime

\* The event loop runs every continuation that is ready and every timer that
\* is due, and time passes.  Nothing obliges a request to arrive or a handler
\* to settle.
SpecFn ==
  /\ Init
  /\ [][NextFn]_vars
  /\ \A r \in Slots : WF_vars(FnStage(r))
  /\ WF_vars(AdvanceTime)

\* ------------------------------------------------------------------------
\* A handler that publishes, in time or late
\* ------------------------------------------------------------------------

\* What the handlers under test publish.
HandlerData == {D_text, D_object}

\* The handler of activation r, still running, calls req.publish(channel,
\* data): publish of the channel hub.  The call is marked "published", and
\* "published late" when the response of the request has already been
\* returned.
HandlerPublishes(r) ==
  /\ handler[r] = "pending"
  /\ sent < MaxMessages
  /\ \E channel \in ChannelNames, data \in HandlerData :
       /\ SetHub(publish(Hub, channel, data))
       /\ hub' = [op |-> "publish", channel |-> channel, stream |-> 0, status |-> 0]
       /\ sent' = IF SubscribersOf(channels, channel) # {} THEN sent + 1 ELSE sent
  /\ Mark(r, IF pc[r] = "done" THEN "published late" ELSE "published")
  /\ UNCHANGED <<diskVars, storeVars, req, pc, resp, probes, fnVars>>

\* One function request at a time, clients that subscribe, and a handler
\* that may publish and settle at any moment, also after the timer has
\* answered for it.
NextLate ==
  \/ \E channel \in ChannelNames : Subscribe(channel)
  \/ DispatchFunction(1)
  \/ FnStage(1)
  \/ HandlerPublishes(1)
  \/ HandlerResolve(1, FnResolutions)
  \/ HandlerReject(1, FnRejections)
  \/ AdvanceTime

SpecLate == InitHub /\ [][NextLate]_vars

\* ------------------------------------------------------------------------
\* A handler that subscribes
\* ------------------------------------------------------------------------

\* What an activation remembers of the stream its handler was given.
StreamMark(s) == ToString(s)

\* The streams the handler of activation r was given by req.subscribe.
StreamsOf(r) == {s \in StreamIds : StreamMark(s) \in did[r]}

\* The response of activation r has gone out with the stream as its body:
\* the client reads it, may disconnect, and its writes may fail.
Streaming(r) == pc[r] = "done" /\ EventStream \in resp[r].headers

Returned(s) == \E r \in Slots : s \in StreamsOf(r) /\ Streaming(r)

\* The handler of activation r, still running, calls req.subscribe(channel),
\* once: at the cap it is given the 503 object, else the stream is
\* constructed, which runs start at once.
HandlerSubscribes(r) ==
  /\ handler[r] = "pending"
  /\ StreamsOf(r) = {}
  /\ "refused" \notin did[r]
  /\ \E channel \in ChannelNames :
       IF AtCapacity(SubscribersOf(channels, channel))
       THEN /\ hub' = [op |-> "subscribe", channel |-> channel, stream |-> 0,
                        status |-> 503]
            /\ Mark(r, "refused")
            /\ UNCHANGED <<channels, streams>>
       ELSE \E s \in StreamIds :
              /\ streams[s].state = "unused"
              /\ \A other \in StreamIds : other < s => streams[other].state # "unused"
              /\ SetHub(start(Hub, channel, s))
              /\ hub' = [op |-> "subscribe", channel |-> channel, stream |-> s,
                          status |-> 200]
              /\ Mark(r, StreamMark(s))
  /\ UNCHANGED <<diskVars, storeVars, req, pc, resp, probes, fnVars, sent>>

\* The handler returns what req.subscribe gave it.
HandlerReturns(r) ==
  /\ StreamsOf(r) # {} \/ "refused" \in did[r]
  /\ Settle(r, "resolved",
            buildResponse(IF StreamsOf(r) # {} THEN "stream" ELSE "refused"))

\* The client of a stream it was sent disconnects, or its connection breaks.
ClientCancels(s) == Returned(s) /\ Cancel(s)

ClientFails(s) == Returned(s) /\ SinkFails(s)

\* The activation is over once no client reads a stream it returned.
Finish(r) ==
  /\ Streaming(r) => \A s \in StreamsOf(r) : ~streams[s].heartbeat
  /\ Recycle(r)

\* One function request at a time, whose handler subscribes at some moment,
\* or never, and then returns the stream, returns something else, throws or
\* is timed out; the clients of the streams that were returned, and the
\* heartbeats.
NextStreams ==
  \/ DispatchFunction(1)
  \/ Invoke(1, FnRejections)
  \/ HandlerSubscribes(1)
  \/ HandlerReturns(1)
  \/ HandlerResolve(1, FnResolutions)
  \/ HandlerReject(1, FnRejections)
  \/ TimerFire(1)
  \/ Decorate(1)
  \/ Finish(1)
  \/ AdvanceTime
  \/ \E s \in StreamIds : ClientCancels(s)
  \/ \E s \in StreamIds : ClientFails(s)
  \/ \E s \in StreamIds : Heartbeat(s)

SpecStreams == InitHub /\ [][NextStreams]_vars

\* ------------------------------------------------------------------------
\* handleRedirects over every small _redirects file
\* ------------------------------------------------------------------------

\* ""
L_blank ==
  <<>>

\* "# /old /gone"
L_comment ==
  <<"#", " ", "/", "o", "l", "d", " ", "/", "g", "o", "n", "e">>

\* "/old"
L_oneField ==
  <<"/", "o", "l", "d">>

\* "  /old   /other 308"
L_oldAgain ==
  <<" ", " ", "/", "o", "l", "d", " ", " ", " ", "/", "o", "t", "h", "e", "r",
  " ", "3", "0", "8">>

\* "/blog/x /exact 307"
L_blogExact ==
  <<"/", "b", "l", "o", "g", "/", "x", " ", "/", "e", "x", "a", "c", "t", " ",
  "3", "0", "7">>

\* "/blog/* /moved 302"
L_blogPlain ==
  <<"/", "b", "l", "o", "g", "/", "*", " ", "/", "m", "o", "v", "e", "d", " ",
  "3", "0", "2">>

\* "/blog/* /a/:splat/b/:splat"
L_blogTwice ==
  <<"/", "b", "l", "o", "g", "/", "*", " ", "/", "a", "/", ":", "s", "p", "l",
  "a", "t", "/", "b", "/", ":", "s", "p", "l", "a", "t">>

\* "/old"
P_old ==
  <<"/", "o", "l", "d">>

\* "/temp"
P_temp ==
  <<"/", "t", "e", "m", "p">>

\* "/blog"
P_blog ==
  <<"/", "b", "l", "o", "g">>

\* "/blog/x"
P_blogX ==
  <<"/", "b", "l", "o", "g", "/", "x">>

\* "/blog/x/y"
P_blogXY ==
  <<"/", "b", "l", "o", "g", "/", "x", "/", "y">>

\* "/blogger"
P_blogger ==
  <<"/", "b", "l", "o", "g", "g", "e", "r">>

\* "/blog/*"
P_blogStar ==
  <<"/", "b", "l", "o", "g", "/", "*">>

\* "/blog/$&"
P_blogDollar ==
  <<"/", "b", "l", "o", "g", "/", "$", "&">>

\* "/nope"
P_nope ==
  <<"/", "n", "o", "p", "e">>

\* The lines a _redirects file is made of.  Every status is one that
\* Response.redirect accepts.
RuleLines ==
  {L_blank, L_comment, L_oneField, L_old, L_oldAgain, L_temp, L_blog,
   L_blogExact, L_blogPlain, L_blogTwice}

\* No _redirects file, or one of at most MaxRuleLines lines.
RedirectFiles ==
  {[exists |-> FALSE, lines |-> <<>>]}
  \cup {[exists |-> TRUE, lines |-> lines] :
          lines \in UNION {[1..n -> RuleLines] : n \in 0..MaxRuleLines}}

\* The paths handleRedirects is called with.
RedirectPaths ==
  {P_old, P_temp, P_blog, P_blogX, P_blogXY, P_blogger, P_blogStar,
   P_blogDollar, P_nope}

InitRedirect ==
  /\ sites = Registry
  /\ siteConfig = Configs
  /\ files = SiteFiles
  /\ redirectsFile \in RedirectFiles
  /\ Idle

\* handleRedirects(sitePath, reqPath) is called and returns.
CallHandleRedirects(reqPath) ==
  /\ pc[1] = "idle"
  /\ req' = [req EXCEPT ![1] = Request(HostA, reqPath, <<>>, "GET", NoAuthorization, "")]
  /\ resp' = [resp EXCEPT ![1] = handleRedirects(redirectsFile, reqPath)]
  /\ Mark(1, "redirects")
  /\ Goto(1, "done")
  /\ UNCHANGED <<envVars, probes, fnVars>>

NextRedirect ==
  \/ \E reqPath \in RedirectPaths : CallHandleRedirects(reqPath)
  \/ Recycle(1)

SpecRedirect == InitRedirect /\ [][NextRedirect]_vars

\* ------------------------------------------------------------------------
\* Redirect rules: what the _redirects format promises
\* ------------------------------------------------------------------------

\* "/new"
D_new ==
  <<"/", "n", "e", "w">>

\* "/other"
D_other ==
  <<"/", "o", "t", "h", "e", "r">>

\* "/somewhere"
D_somewhere ==
  <<"/", "s", "o", "m", "e", "w", "h", "e", "r", "e">>

\* "/posts/:splat"
D_posts ==
  <<"/", "p", "o", "s", "t", "s", "/", ":", "s", "p", "l", "a", "t">>

\* "/exact"
D_exact ==
  <<"/", "e", "x", "a", "c", "t">>

\* "/moved"
D_moved ==
  <<"/", "m", "o", "v", "e", "d">>

\* "/a/:splat/b/:splat"
D_twice ==
  <<"/", "a", "/", ":", "s", "p", "l", "a", "t", "/", "b", "/", ":", "s", "p",
  "l", "a", "t">>

\* The lines that carry no rule: blank, comment, fewer than two fields.
NoRuleLines == {L_blank, L_comment, L_oneField}

\* The rule each of the other lines states, read off the line by hand.
RuleOfLine(line) ==
  CASE line = L_old -> [from |-> P_old, to |-> D_new, status |-> 301]
    [] line = L_oldAgain -> [from |-> P_old, to |-> D_other, status |-> 308]
    [] line = L_temp -> [from |-> P_temp, to |-> D_somewhere, status |-> 302]
    [] line = L_blog -> [from |-> P_blogStar, to |-> D_posts, status |-> 301]
    [] line = L_blogExact -> [from |-> P_blogX, to |-> D_exact, status |-> 307]
    [] line = L_blogPlain -> [from |-> P_blogStar, to |-> D_moved, status |-> 302]
    [] line = L_blogTwice -> [from |-> P_blogStar, to |-> D_twice, status |-> 301]

\* The rules of the file under test, in file order.
StatedRules ==
  LET kept == IF redirectsFile.exists
              THEN SelectSeq(redirectsFile.lines, LAMBDA l : l \notin NoRuleLines)
              ELSE <<>>
  IN [i \in 1..Len(kept) |-> RuleOfLine(kept[i])]

IsWildcard(rule) == EndsWith(rule.from, <<"/", "*">>)

\* A rule P/* covers P and every path beginning with P/.
Covers(rule, reqPath) ==
  LET P == DropLast(rule.from, 2)
  IN IsWildcard(rule) /\ (reqPath = P \/ StartsWith(reqPath, P \o <<"/">>))

RuleMatches(rule, reqPath) == rule.from = reqPath \/ Covers(rule, reqPath)

\* The positions of the rules that match the path of the call.
Hits == {i \in 1..Len(StatedRules) : RuleMatches(StatedRules[i], req[1].target)}

FirstHit == CHOOSE i \in Hits : \A j \in Hits : i <= j

\* The part of a destination before its first :splat (all of it without one).
UpToSplat(to) ==
  LET i == IndexOf(to, Splat) IN IF i = 0 THEN to ELSE SubSeq(to, 1, i - 1)

\* `s` with every occurrence of `pat` replaced by the literal text `rep`.
RECURSIVE ReplaceAll(_, _, _)
ReplaceAll(s, pat, rep) ==
  IF s = <<>> THEN <<>>
  ELSE IF StartsWith(s, pat) THEN rep \o ReplaceAll(Slice(s, Len(pat)), pat, rep)
       ELSE <<Head(s)>> \o ReplaceAll(Tail(s), pat, rep)

\* C8: handleRedirects answers with the first rule, in file order, that
\* matches the path (exactly or by wildcard) even when a later rule matches
\* too, and with null only when no rule matches; blank lines, # lines and
\* lines of fewer than two fields contribute no rule.
C8_FirstRuleWins ==
  pc[1] = "done" =>
    IF Hits = {} THEN resp[1] = Null
    ELSE LET rule == StatedRules[FirstHit]
         IN /\ resp[1].by = "redirects"
            /\ resp[1].status = rule.status
            /\ IF rule.from = req[1].target
               THEN resp[1].location = rule.to
               ELSE StartsWith(resp[1].location, UpToSplat(rule.to))

\* A file with a line that is no rule and two rules matching the path with
\* different destinations: the answer is the earlier rule's.
C8_Witness ==
  /\ pc[1] = "done"
  /\ \E i \in 1..Len(redirectsFile.lines) : redirectsFile.lines[i] \in NoRuleLines
  /\ \E i, j \in Hits :
       /\ i < j
       /\ StatedRules[i].to # StatedRules[j].to
       /\ StatedRules[i].status # StatedRules[j].status
  /\ resp[1].location = StatedRules[FirstHit].to
  /\ resp[1].status = StatedRules[FirstHit].status

\* C9: a rule P/* matches exactly the paths equal to P or beginning with
\* P/, and its destination is `to` with every occurrence of :splat replaced
\* by the part of the path after P/ (empty when the path equals P).
C9_EverySplatReplaced ==
  pc[1] = "done" =>
    \A i \in 1..Len(StatedRules) :
      LET rule == StatedRules[i]
          P == DropLast(rule.from, 2)
          splat == Slice(req[1].target, Len(P) + 1)
      IN (IsWildcard(rule) /\ \A j \in Hits : i <= j) =>
           IF Covers(rule, req[1].target)
           THEN resp[1].location = ReplaceAll(rule.to, Splat, splat)
           ELSE i \notin Hits

\* ------------------------------------------------------------------------
\* serveStatic over every deployment made of a few files
\* ------------------------------------------------------------------------

\* "/about"
S_aboutBare ==
  <<"/", "a", "b", "o", "u", "t">>

\* "/style.css.html"
S_styleHtml ==
  <<"/", "s", "t", "y", "l", "e", ".", "c", "s", "s", ".", "h", "t", "m",
  "l">>

\* "/package.json"
S_packageJson ==
  <<"/", "p", "a", "c", "k", "a", "g", "e", ".", "j", "s", "o", "n">>

\* "/.git/config"
S_gitConfig ==
  <<"/", ".", "g", "i", "t", "/", "c", "o", "n", "f", "i", "g">>

\* "/.env.local"
S_envLocal ==
  <<"/", ".", "e", "n", "v", ".", "l", "o", "c", "a", "l">>

\* "/about.html"
P_aboutHtml ==
  <<"/", "a", "b", "o", "u", "t", ".", "h", "t", "m", "l">>

\* "/team/"
P_teamSlash ==
  <<"/", "t", "e", "a", "m", "/">>

\* "/_functions/hello.js"
P_fnHello ==
  <<"/", "_", "f", "u", "n", "c", "t", "i", "o", "n", "s", "/", "h", "e", "l",
  "l", "o", ".", "j", "s">>

\* "/.bunpaas"
P_bunpaas ==
  <<"/", ".", "b", "u", "n", "p", "a", "a", "s">>

\* "/node_modules/x.js"
P_nodeModules ==
  <<"/", "n", "o", "d", "e", "_", "m", "o", "d", "u", "l", "e", "s", "/", "x",
  ".", "j", "s">>

\* The files a deployment under test may hold.  No path is both a file and
\* a directory, as on any filesystem.
StaticFiles ==
  {F_index, F_about, S_aboutBare, F_teamIndex, F_teamHtml, F_style, S_styleHtml,
   F_siteJson, S_packageJson, F_env, S_envLocal, S_gitConfig, M_hello}

StaticTrees ==
  {tree \in SUBSET StaticFiles :
     /\ Cardinality(tree) <= MaxFiles
     /\ \A f, g \in tree : ~StartsWith(g, f \o <<"/">>)}

\* The paths serveStatic is called with.
StaticPaths ==
  {T_root, T_about, P_aboutHtml, T_team, P_teamSlash, T_style, T_nope,
   T_siteJson, S_packageJson, F_env, S_envLocal, S_gitConfig, P_fnHello,
   P_bunpaas, P_nodeModules}

InitStatic ==
  /\ sites = Registry
  /\ siteConfig = Configs
  /\ files \in StaticTrees
  /\ redirectsFile = SiteRedirects
  /\ Idle

\* serveStatic(ctx) is called for the site at Root and returns.
CallServeStatic(reqPath) ==
  LET served == serveStatic(files, Root, reqPath)
  IN /\ pc[1] = "idle"
     /\ req' = [req EXCEPT ![1] = Request(HostA, reqPath, <<>>, "GET", NoAuthorization, "")]
     /\ resp' = [resp EXCEPT ![1] = served.response]
     /\ probes' = [probes EXCEPT ![1] = served.probed]
     /\ Mark(1, "static")
     /\ Goto(1, "done")
     /\ UNCHANGED <<envVars, fnVars>>

NextStatic ==
  \/ \E reqPath \in StaticPaths : CallServeStatic(reqPath)
  \/ Recycle(1)

SpecStatic == InitStatic /\ [][NextStatic]_vars

\* "//site.json"
U_siteJson ==
  <<"/", "/", "s", "i", "t", "e", ".", "j", "s", "o", "n">>

\* "/../site.json"
U_upSiteJson ==
  <<"/", ".", ".", "/", "s", "i", "t", "e", ".", "j", "s", "o", "n">>

\* "//_functions/hello.js"
U_fnHello ==
  <<"/", "/", "_", "f", "u", "n", "c", "t", "i", "o", "n", "s", "/", "h", "e", "l",
  "l", "o", ".", "j", "s">>

\* "/team//.env"
U_teamEnv ==
  <<"/", "t", "e", "a", "m", "/", "/", ".", "e", "n", "v">>

\* The request targets sent: those of StaticPaths and some with repeated
\* slashes or dot segments.
SentTargets == StaticPaths \cup {U_siteJson, U_upSiteJson, U_fnHello, U_teamEnv}

\* ctx.path as handleRequest passes it to serveStatic: url.pathname of a
\* target the trailing-slash redirect has not answered.
RouterPaths ==
  {UrlPathname(target) : target \in
     {t \in SentTargets : UrlPathname(t) = <<"/">> \/ ~EndsWith(UrlPathname(t), <<"/">>)}}

NextServe ==
  \/ \E reqPath \in RouterPaths : CallServeStatic(reqPath)
  \/ Recycle(1)

\* serveStatic under every path the router passes in.
SpecServe == InitStatic /\ [][NextServe]_vars

\* The paths of StaticPaths that the blocked patterns are meant to cover.
StatedBlocked ==
  {T_siteJson, S_packageJson, F_env, S_envLocal, S_gitConfig, P_fnHello,
   P_bunpaas, P_nodeModules}

\* C4: for a path matching a blocked pattern serveStatic returns null and
\* asks the filesystem nothing, whether or not the deployment holds such a
\* file.
C4_BlockedPathUntouched ==
  (pc[1] = "done" /\ req[1].target \in StatedBlocked) =>
    resp[1] = Null /\ probes[1] = {}

\* A blocked path whose file is in the deployment, refused without a probe.
C4_Witness ==
  /\ pc[1] = "done"
  /\ req[1].target \in StatedBlocked
  /\ req[1].target \in files
  /\ "static" \in did[1]
  /\ resp[1] = Null
  /\ probes[1] = {}

\* `name` below the directory `dir`.
Under(dir, name) == IF EndsWith(dir, <<"/">>) THEN dir \o name ELSE dir \o <<"/">> \o name

\* Whether the last segment of the path has an extension.
HasExtension(reqPath) ==
  \E i \in (LastIndexOfChar(reqPath, "/") + 2)..Len(reqPath) : reqPath[i] = "."

\* The order C7 states: the file, its index.html, and for a path without
\* extension and trailing slash the .html file.
StatedOrder(reqPath) ==
  <<Root \o reqPath, Under(Root \o reqPath, IndexHtml)>>
  \o (IF ~HasExtension(reqPath) /\ ~EndsWith(reqPath, <<"/">>)
      THEN <<Root \o reqPath \o DotHtml>>
      ELSE <<>>)

\* The positions in the stated order that name a file of the deployment.
Existing == {i \in 1..Len(StatedOrder(req[1].target)) :
               \E f \in files : StatedOrder(req[1].target)[i] = Root \o f}

\* C7: for a path that is not blocked, serveStatic serves the first existing
\* non-directory file among root+path, root+path/index.html and, only for a
\* path with no extension and no trailing slash, root+path.html; it returns
\* null when none exists.
C7_StaticPrecedence ==
  (pc[1] = "done" /\ req[1].target \notin StatedBlocked) =>
    IF Existing = {} THEN resp[1] = Null
    ELSE /\ resp[1].status = 200
         /\ resp[1].file =
              StatedOrder(req[1].target)[CHOOSE i \in Existing : \A j \in Existing : i <= j]

\* /team with both team/index.html and team.html deployed: the index wins.
C7_Witness ==
  /\ pc[1] = "done"
  /\ req[1].target = T_team
  /\ {F_teamIndex, F_teamHtml} \subseteq files
  /\ resp[1].status = 200
  /\ resp[1].file = Root \o F_teamIndex

\* ------------------------------------------------------------------------
\* findFunctionFile over every small function tree
\* ------------------------------------------------------------------------

\* "/_functions/users/[id].js"
R_userIdFile ==
  <<"/", "_", "f", "u", "n", "c", "t", "i", "o", "n", "s", "/", "u", "s", "e",
  "r", "s", "/", "[", "i", "d", "]", ".", "j", "s">>

\* "/_functions/users/me/index.js"
R_userMeIndex ==
  <<"/", "_", "f", "u", "n", "c", "t", "i", "o", "n", "s", "/", "u", "s", "e",
  "r", "s", "/", "m", "e", "/", "i", "n", "d", "e", "x", ".", "j", "s">>

\* "/_functions/[slug]/me.js"
R_slugMe ==
  <<"/", "_", "f", "u", "n", "c", "t", "i", "o", "n", "s", "/", "[", "s", "l",
  "u", "g", "]", "/", "m", "e", ".", "j", "s">>

\* "/_functions/[slug]/[id].js"
R_slugId ==
  <<"/", "_", "f", "u", "n", "c", "t", "i", "o", "n", "s", "/", "[", "s", "l",
  "u", "g", "]", "/", "[", "i", "d", "]", ".", "j", "s">>

\* "/_functions/[id]/[id].js"
R_idId ==
  <<"/", "_", "f", "u", "n", "c", "t", "i", "o", "n", "s", "/", "[", "i", "d",
  "]", "/", "[", "i", "d", "]", ".", "j", "s">>

\* "/index.js"
R_rootIndex ==
  <<"/", "i", "n", "d", "e", "x", ".", "j", "s">>

\* "/a/me"
T_aMe ==
  <<"/", "a", "/", "m", "e">>

\* "/1/2"
T_oneTwo ==
  <<"/", "1", "/", "2">>

\* "/docs/../hello"
T_dotHello ==
  <<"/", "d", "o", "c", "s", "/", ".", ".", "/", "h", "e", "l", "l", "o">>

\* "/../index"
T_escape ==
  <<"/", ".", ".", "/", "i", "n", "d", "e", "x">>

\* The files a deployment under test may hold: function files, and one file
\* of the site root outside _functions.
RouteFiles ==
  {M_hello, M_userMe, M_userId, R_userIdFile, R_userMeIndex, R_slugMe, R_slugId,
   R_idId, R_rootIndex}

RouteTrees == {tree \in SUBSET RouteFiles : Cardinality(tree) <= MaxFiles}

\* The request targets findFunctionFile is reached with.
RouteTargets ==
  {T_hello, T_userMe, T_user42, T_aMe, T_oneTwo, T_dotHello, T_escape}

InitRoute ==
  /\ sites = Registry
  /\ siteConfig = Configs
  /\ files \in RouteTrees
  /\ redirectsFile = SiteRedirects
  /\ Idle

\* handleFunction resolves the route of a request: ctx.path is the pathname
\* of the parsed URL, and the scans list the directories in some order.
CallFindFunctionFile(target, order) ==
  /\ pc[1] = "idle"
  /\ req' = [req EXCEPT ![1] = Request(HostA, target, <<>>, "GET", NoAuthorization, "")]
  /\ route' = [route EXCEPT ![1] = ResolveFunction(files, Root, UrlPathname(target), order)]
  /\ Mark(1, "function")
  /\ Goto(1, "done")
  /\ UNCHANGED <<envVars, resp, probes, race, handler, timer, waited>>

NextRoute ==
  \/ \E target \in RouteTargets, order \in ScanOrders : CallFindFunctionFile(target, order)
  \/ Recycle(1)

SpecRoute == InitRoute /\ [][NextRoute]_vars

\* The site's _functions directory.
FDir == Root \o <<"/">> \o FunctionsDirName

IsFile(p) == \E f \in files : Root \o f = p

IsDir(p) == \E f \in files : StartsWith(Root \o f, p \o <<"/">>)

\* The names of the entries of directory `dir`.
Children(dir) ==
  {TakeUntil(Slice(Root \o f, Len(dir) + 1), {"/"}) :
     f \in {g \in files : StartsWith(Root \o g, dir \o <<"/">>)}}

IsBracketDir(name) == Len(name) >= 3 /\ Head(name) = "[" /\ name[Len(name)] = "]"

IsBracketFile(name) == EndsWith(name, DotJs) /\ IsBracketDir(DropLast(name, 3))

\* The parameter a bracketed entry names.
StatedParam(name) ==
  IF IsBracketFile(name) THEN SubSeq(name, 2, Len(name) - 4)
  ELSE SubSeq(name, 2, Len(name) - 1)

\* Whether some file of the tree matches the segments from `dir` on, each
\* segment taken by an exactly named or a bracketed child.
RECURSIVE Matchable(_, _)
Matchable(dir, segs) ==
  LET seg == Head(segs)
      rest == Tail(segs)
  IN IF rest = <<>>
     THEN \/ IsFile(Under(dir, seg \o DotJs))
          \/ IsFile(Under(Under(dir, seg), IndexJs))
          \/ \E n \in Children(dir) :
               \/ IsBracketFile(n) /\ IsFile(Under(dir, n))
               \/ IsBracketDir(n) /\ IsFile(Under(Under(dir, n), IndexJs))
     ELSE \/ IsDir(Under(dir, seg)) /\ Matchable(Under(dir, seg), rest)
          \/ \E n \in Children(dir) :
               IsBracketDir(n) /\ IsDir(Under(dir, n)) /\ Matchable(Under(dir, n), rest)

\* Whether a match exists through the exactly named child of `dir`.
ExactCompletes(dir, segs) ==
  IF Tail(segs) = <<>>
  THEN \/ IsFile(Under(dir, Head(segs) \o DotJs))
       \/ IsFile(Under(Under(dir, Head(segs)), IndexJs))
  ELSE IsDir(Under(dir, Head(segs))) /\ Matchable(Under(dir, Head(segs)), Tail(segs))

\* The segments of the request path, and of the resolved file below FDir.
StatedSegments == FilterNonEmpty(SplitSlash(UrlPathname(req[1].target)))

UsedNames == SplitSlash(Slice(route[1].path, Len(FDir) + 1))

\* The directory the search is in when it takes segment i.
RECURSIVE DirAt(_)
DirAt(i) == IF i = 1 THEN FDir ELSE Under(DirAt(i - 1), UsedNames[i - 1])

\* Whether the child used for segment i is the exactly named one.
UsedExact(i) ==
  IF i = Len(StatedSegments)
  THEN \/ UsedNames[i] = StatedSegments[i] \o DotJs
       \/ UsedNames[i] = StatedSegments[i] /\ Len(UsedNames) = i + 1
  ELSE UsedNames[i] = StatedSegments[i]

\* The deepest position at which a bracketed child naming `param` was used.
DeepestUse(param) ==
  LET uses == {j \in 1..Len(StatedSegments) :
                 ~UsedExact(j) /\ StatedParam(UsedNames[j]) = param}
  IN CHOOSE j \in uses : \A k \in uses : k <= j

\* Exact-child precedence over the tree under test.  With `deepest`, a
\* parameter name used at several levels is bound to the deepest of them;
\* without, every bracketed child binds its own segment.
ExactChildPreferred(deepest) ==
  (pc[1] = "done" /\ "function" \in did[1] /\ IsDir(FDir)) =>
    /\ route[1].found <=> Matchable(FDir, StatedSegments)
    /\ route[1].found =>
         /\ IsFile(route[1].path)
         /\ \A i \in 1..Len(StatedSegments) :
              \/ UsedExact(i)
              \/ LET name == StatedParam(UsedNames[i])
                     bound == IF deepest THEN DeepestUse(name) ELSE i
                 IN /\ IsBracketDir(UsedNames[i]) \/ IsBracketFile(UsedNames[i])
                    /\ ~ExactCompletes(DirAt(i), SubSeq(StatedSegments, i, Len(StatedSegments)))
                    /\ name \in DOMAIN route[1].params
                    /\ route[1].params[name] = StatedSegments[bound]

\* C5 as stated: at every level the match goes through the exactly named
\* child when one completes it; a bracketed child is used only otherwise,
\* and then params[name] is the request segment at that position.
C5_ExactChildPreferred == ExactChildPreferred(FALSE)

\* C5 amended: as above, except that a parameter name carried by bracketed
\* children at several levels of the match holds the segment of the deepest.
C5_ExactChildPreferredDeepest == ExactChildPreferred(TRUE)

\* /users/42 where both the exact directory users/ and the bracketed
\* directory [slug]/ lead to a file: the match goes through users/ and
\* binds id to "42".
C5_Witness ==
  /\ pc[1] = "done"
  /\ req[1].target = T_user42
  /\ {R_userIdFile, R_slugId} \subseteq files
  /\ route[1].found
  /\ route[1].path = Root \o R_userIdFile
  /\ route[1].params[<<"i", "d">>] = <<"4", "2">>

\* C6: the file path findFunctionFile returns lies inside the site's
\* _functions directory, whatever the request path.
C6_InsideFunctionsDir ==
  (pc[1] = "done" /\ route[1].found) =>
    /\ StartsWith(route[1].path, FDir \o <<"/">>)
    /\ \A i \in 1..Len(UsedNames) : UsedNames[i] \notin {<<".">>, <<".", ".">>}

\* A target with a dot segment pointing at a file of the site root, resolved
\* while that file exists: nothing outside _functions is returned; and a
\* target with dot segments that resolves, inside.
C6_Witness ==
  /\ pc[1] = "done"
  /\ req[1].target = T_dotHello
  /\ R_rootIndex \in files
  /\ route[1].found
  /\ route[1].path = Root \o M_hello

\* ------------------------------------------------------------------------
\* The pipeline: authentication, registry lookup, trailing slashes
\* ------------------------------------------------------------------------

\* The stages that come after the auth check.
AfterAuth == {"preflight", "redirects", "static", "function", "handler"}

\* The Authorization headers of the request set that carry no valid
\* credentials: none, another scheme, a wrong password, no password.
StatedInvalid ==
  {NoAuthorization, BearerAuthorization, BasicAuthorization(C_wrong),
   BasicAuthorization(C_noColon)}

\* The requests site.json asks credentials for: every path of HostAuth
\* (auth: "basic"), the paths under /admin of HostScoped ({type, paths}).
Protected(r) ==
  \/ req[r].host = HostAuth
  \/ req[r].host = HostScoped /\ StartsWith(ReqPath(r), AdminPrefix)

C2_RegistryDecides ==
  \A r \in Slots :
    pc[r] \notin {"idle", "lookup"} =>
      /\ req[r].host \notin DOMAIN sites =>
           pc[r] = "done" /\ resp[r].status = 404 /\ did[r] = {}
      /\ (req[r].host \in DOMAIN sites /\ ~sites[req[r].host].enabled) =>
           pc[r] = "done" /\ resp[r].status = 503 /\ did[r] = {}

\* C10: for an enabled site a request whose path is not "/" and ends with
\* "/" gets a 301 to the same path without the final slash, query string
\* appended, on the same origin; "/" is never redirected by this stage.
C10_TrailingSlash ==
  \A r \in Slots :
    (/\ pc[r] \notin {"idle", "lookup", "normalize"}
     /\ req[r].host \in DOMAIN sites
     /\ sites[req[r].host].enabled) =>
      IF ReqPath(r) # <<"/">> /\ EndsWith(ReqPath(r), <<"/">>)
      THEN /\ pc[r] = "done"
           /\ resp[r].status = 301
           /\ resp[r].location =
                <<"h", "t", "t", "p", ":", "/", "/">> \o req[r].host
                \o DropLast(ReqPath(r), 1) \o req[r].search
      ELSE resp[r].by # "normalize"

\* ------------------------------------------------------------------------
\* Function timeout
\* ------------------------------------------------------------------------

\* siteConfig.functionTimeout, else 60000 ms.
StatedTimeout(r) ==
  IF ConfigOf(r).functionTimeout # 0 THEN ConfigOf(r).functionTimeout ELSE 60000

\* While the race is open the timer shows what is left of the timeout; the
\* timer decides the race exactly when the timeout has elapsed, with a 504;
\* and the only response sent while the handler is still pending is that 504.
TimeoutAnswers ==
  \A r \in Slots :
    /\ pc[r] = "wait" =>
         waited[r] <= StatedTimeout(r) /\ timer[r] = StatedTimeout(r) - waited[r]
    /\ "timeout" \in did[r] =>
         waited[r] = StatedTimeout(r) /\ resp[r].status = 504
    /\ (pc[r] \in {"decorate", "done"} /\ handler[r] = "pending") =>
         "timeout" \in did[r] /\ resp[r].status = 504

\* C3: a handler that has not settled when the timeout elapses
\* (siteConfig.functionTimeout, else 60000 ms) gets 504; every function
\* request is eventually answered even if its handler never settles; and
\* the server goes on answering: the activation ends, and a request that
\* arrives later, or is in flight beside it, is answered too.
C3_TimeoutLiveness ==
  /\ []TimeoutAnswers
  /\ \A r \in Slots : (pc[r] # "idle") ~> (pc[r] = "done")
  /\ \A r \in Slots : ("timeout" \in did[r]) ~> (pc[r] = "idle")

\* One request answered 504 after its configured 20000 ms with its handler
\* still pending, and beside it another answered by its handler.
C3_Witness ==
  \E a, b \in Slots :
    /\ a # b
    /\ pc[a] = "done"
    /\ "timeout" \in did[a]
    /\ handler[a] = "pending"
    /\ waited[a] = 20000
    /\ resp[a].status = 504
    /\ pc[b] = "done"
    /\ handler[b] = "resolved"
    /\ resp[b].status = 200

\* ------------------------------------------------------------------------
\* Response headers: CORS and the security headers
\* ------------------------------------------------------------------------

\* The request of slot r comes from an origin its site's cors block allows:
\* the site declares cors, the request has an Origin header, and cors.origins
\* holds that origin verbatim or "*".
OriginStatedAllowed(r) ==
  /\ req[r].host \in DOMAIN siteConfig
  /\ siteConfig[req[r].host].cors.configured
  /\ req[r].origin # ""
  /\ \/ req[r].origin \in siteConfig[req[r].host].cors.origins
     \/ "*" \in siteConfig[req[r].host].cors.origins

HeaderNames(response) == {h[1] : h \in response.headers}

\* C11: a response carries Access-Control-Allow-Origin, echoing the request
\* Origin, if and only if the site declares cors, the request has an Origin
\* and cors.origins holds it verbatim or holds "*";
\* Access-Control-Allow-Credentials is sent only when, in addition,
\* cors.credentials is set.
C11_CorsHeaders ==
  \A r \in Slots :
    pc[r] = "done" =>
      /\ <<"Access-Control-Allow-Origin", req[r].origin>> \in resp[r].headers
           <=> OriginStatedAllowed(r)
      /\ "Access-Control-Allow-Origin" \in HeaderNames(resp[r])
           => OriginStatedAllowed(r)
      /\ "Access-Control-Allow-Credentials" \in HeaderNames(resp[r])
           => OriginStatedAllowed(r) /\ siteConfig[req[r].host].cors.credentials

\* C13: every response handleRequest returns, whichever stage produced it,
\* carries X-Content-Type-Options: nosniff, X-Frame-Options: SAMEORIGIN and
\* Referrer-Policy: strict-origin-when-cross-origin.
C13_SecurityHeaders ==
  \A r \in Slots :
    pc[r] = "done" =>
      {<<"X-Content-Type-Options", "nosniff">>,
       <<"X-Frame-Options", "SAMEORIGIN">>,
       <<"Referrer-Policy", "strict-origin-when-cross-origin">>}
        \subseteq resp[r].headers

\* ------------------------------------------------------------------------
\* checkBasicAuth over every small pair of stored and supplied credentials
\* ------------------------------------------------------------------------

\* "root"
OtherUser ==
  <<"r", "o", "o", "t">>

\* "root:secret"
C_otherUser ==
  <<"r", "o", "o", "t", ":", "s", "e", "c", "r", "e", "t">>

\* "admin:"
C_emptyPassword ==
  <<"a", "d", "m", "i", "n", ":">>

\* ":secret"
C_emptyUser ==
  <<":", "s", "e", "c", "r", "e", "t">>

\* "admin:secret:x"
C_twoColons ==
  <<"a", "d", "m", "i", "n", ":", "s", "e", "c", "r", "e", "t", ":", "x">>

\* "Admin:secret"
C_upperUser ==
  <<"A", "d", "m", "i", "n", ":", "s", "e", "c", "r", "e", "t">>

\* "wrong"
Wrong ==
  <<"w", "r", "o", "n", "g">>

\* "basic "
LowerBasicPrefix ==
  <<"b", "a", "s", "i", "c", " ">>

\* ADMIN_USERNAME and ADMIN_PASSWORD_HASH of the site: each absent or
\* present, the hash one that Bun.password.verify can parse or not.
AuthEnvs ==
  {[user |-> u, hash |-> h] :
     u \in {<<>>, Admin, OtherUser},
     h \in {[set |-> FALSE, wellFormed |-> FALSE, of |-> <<>>],
            [set |-> TRUE, wellFormed |-> FALSE, of |-> <<>>],
            [set |-> TRUE, wellFormed |-> TRUE, of |-> Secret],
            [set |-> TRUE, wellFormed |-> TRUE, of |-> Wrong]}}

\* The Authorization header: absent, empty, another scheme, "basic " in
\* lower case, and "Basic " followed by the base64 of a payload.
AuthHeaders ==
  {NoAuthorization, BearerAuthorization,
   [present |-> TRUE, prefix |-> <<>>, payload |-> <<>>],
   [present |-> TRUE, prefix |-> LowerBasicPrefix, payload |-> C_good]}
  \cup {BasicAuthorization(c) :
          c \in {<<>>, C_good, C_wrong, C_noColon, C_otherUser, C_emptyPassword,
                 C_emptyUser, C_twoColons, C_upperUser}}

InitAuth ==
  /\ sites \in {[Registry EXCEPT ![HostAuth].env = e] : e \in AuthEnvs}
  /\ siteConfig = Configs
  /\ files = SiteFiles
  /\ redirectsFile = SiteRedirects
  /\ Idle

\* checkBasicAuth(req, site) is called and returns.
CallCheckBasicAuth(authorization) ==
  /\ pc[1] = "idle"
  /\ req' = [req EXCEPT ![1] = Request(HostAuth, T_root, <<>>, "GET", authorization, "")]
  /\ resp' = [resp EXCEPT ![1] =
                checkBasicAuth(authorization, getSiteByHost(sites, HostAuth).env)]
  /\ Mark(1, "auth")
  /\ Goto(1, "done")
  /\ UNCHANGED <<envVars, probes, fnVars>>

NextAuth ==
  \/ \E authorization \in AuthHeaders : CallCheckBasicAuth(authorization)
  \/ Recycle(1)

SpecAuth == InitAuth /\ [][NextAuth]_vars

\* "se:cret"
W_colon ==
  <<"s", "e", ":", "c", "r", "e", "t">>

\* "secret:"
W_endColon ==
  <<"s", "e", "c", "r", "e", "t", ":">>

\* ":secret"
W_startColon ==
  <<":", "s", "e", "c", "r", "e", "t">>

\* The passwords an administrator may have chosen.
Passwords == {Secret, Wrong, W_colon, W_endColon, W_startColon}

\* The user-id and password a client sends, as RFC 7617 joins them: the
\* user-id holds no colon, the password may.
Credentials(user, password) == user \o <<":">> \o password

\* A site whose credentials are configured, with any of the passwords.
InitPasswords ==
  /\ \E u \in {Admin, OtherUser}, w \in Passwords :
       sites = [Registry EXCEPT ![HostAuth].env =
                  [user |-> u, hash |-> [set |-> TRUE, wellFormed |-> TRUE, of |-> w]]]
  /\ siteConfig = Configs
  /\ files = SiteFiles
  /\ redirectsFile = SiteRedirects
  /\ Idle

NextPasswords ==
  \/ \E u \in {Admin, OtherUser}, w \in Passwords :
       CallCheckBasicAuth(BasicAuthorization(Credentials(u, w)))
  \/ Recycle(1)

\* checkBasicAuth under every pairing of a configured and a sent credential.
SpecPasswords == InitPasswords /\ [][NextPasswords]_vars

\* What the claim's cases say of a header and the stored credentials.  The
\* supplied username and password are the first two colon-separated fields
\* of the decoded payload (a password holding ":" is cut at it); the
\* verification throws for a missing password and for a hash it cannot
\* parse, and succeeds when the password is the hashed one.
NotConfigured(env) == env.user = <<>> \/ ~env.hash.set
NotBasic(a) == ~a.present \/ a.prefix # <<"B", "a", "s", "i", "c", " ">>
SuppliedUsername(a) == SplitColon(a.payload)[1]
HasSuppliedPassword(a) == Len(SplitColon(a.payload)) >= 2
SuppliedPassword(a) == SplitColon(a.payload)[2]
VerificationThrows(a, env) == ~HasSuppliedPassword(a) \/ ~env.hash.wellFormed
VerificationSucceeds(a, env) ==
  ~VerificationThrows(a, env) /\ SuppliedPassword(a) = env.hash.of

IsChallenge401(response) ==
  /\ response # Null
  /\ response.status = 401
  /\ <<"WWW-Authenticate", "Basic realm=\"Admin\"">> \in response.headers

Is500(response) == response # Null /\ response.status = 500

PreflightRequest(r) ==
  /\ req[r].method = "OPTIONS"
  /\ req[r].host \in DOMAIN siteConfig
  /\ siteConfig[req[r].host].cors.configured
  /\ sites[req[r].host].enabled
  /\ Protected(r) => checkBasicAuth(req[r].authorization, sites[req[r].host].env) = Null

\* The 204 of handleCors and nothing after it.
PreflightAnswered(r) ==
  /\ resp[r].status = 204
  /\ resp[r].by = "preflight"
  /\ did[r] \cap {"redirects", "static", "function", "handler", "error"} = {}
  /\ probes[r] = {}

StaticYields(r) == serveStatic(files, SitePath(req[r].host), ReqPath(r)).response

\* The function dispatcher finds a route and a handler for the request.
FunctionMatches(r) ==
  \E order \in ScanOrders :
    HandlerFor(req[r].host, ReqPath(r), req[r].method, order).handler # ""

\* The request of slot r was answered by content resolution.
ContentResolved(r) ==
  pc[r] = "done" /\ did[r] \cap {"static", "function", "handler", "error"} # {}

\* The 404 page: 404.html of the deployment when it has one, else plain text.
ErrorPage(r) ==
  /\ resp[r].by = "error"
  /\ resp[r].status = 404
  /\ resp[r].file # <<>> <=> F_404 \in files

Registered(channel) == IF channel \in DOMAIN channels THEN channels[channel] ELSE {}

RegisteredAfter(channel) == IF channel \in DOMAIN channels' THEN channels'[channel] ELSE {}

\* The payload of the frame for each value: a string as it is, an object as
\* its JSON text.
StatedPayload(data) ==
  CASE data = D_text -> "hi"
    [] data = D_object -> "{\"n\":1}"
    [] OTHER -> "[object Object]"

StatedFrame(data) == <<"data: ", StatedPayload(data), "\n\n">>

\* Nothing in the hub changes for the streams outside `touched` and the
\* channels other than `channel`.
OthersUntouched(channel, touched) ==
  /\ \A s \in StreamIds \ touched : streams'[s] = streams[s]
  /\ \A c \in ChannelNames \ {channel} :
       /\ c \in DOMAIN channels' <=> c \in DOMAIN channels
       /\ RegisteredAfter(c) = Registered(c)

\* C17 as stated: publish(channel, data) enqueues the one message
\* "data: <payload>\n\n" exactly once to every subscriber registered on the
\* channel when it is called and to no other subscriber; with no subscriber
\* on the channel it changes nothing.
C17_PublishFanout ==
  [][\A channel \in ChannelNames, data \in Data :
       Publish(channel, data) =>
         /\ \A s \in Registered(channel) :
              streams'[s].queue = Append(streams[s].queue, StatedFrame(data))
         /\ \A s \in StreamIds \ Registered(channel) :
              streams'[s].queue = streams[s].queue
         /\ Registered(channel) = {} => channels' = channels /\ streams' = streams]_vars

\* C17 amended: for data that can be serialised, publish enqueues the one
\* message exactly once to every subscriber registered on the channel whose
\* stream accepts the write, and to no other subscriber; a registered
\* subscriber whose write throws gets nothing and is removed (heartbeat
\* cleared, the channel entry deleted with its last member); with no
\* subscriber on the channel, and for data JSON.stringify rejects, nothing
\* changes.
C17_PublishFanoutOpen ==
  [][\A channel \in ChannelNames, data \in Data :
       (hub'.op = "publish" /\ hub'.channel = channel /\ Publish(channel, data)) =>
         IF Registered(channel) = {} \/ data = D_cyclic
         THEN channels' = channels /\ streams' = streams
         ELSE /\ \A s \in Registered(channel) :
                   IF streams[s].state = "open"
                   THEN /\ streams'[s] = [streams[s] EXCEPT
                                            !.queue = Append(@, StatedFrame(data))]
                        /\ s \in RegisteredAfter(channel)
                   ELSE /\ streams'[s] = [streams[s] EXCEPT !.heartbeat = FALSE]
                        /\ s \notin RegisteredAfter(channel)
              /\ RegisteredAfter(channel) \subseteq Registered(channel)
              /\ channel \in DOMAIN channels' <=> RegisteredAfter(channel) # {}
              /\ OthersUntouched(channel, Registered(channel))]_vars

\* A publish to a channel with two subscribers, beside a subscriber of the
\* other channel: both got the frame once, the third nothing.
C17_Witness ==
  /\ hub.op = "publish"
  /\ \E s, t, u \in StreamIds :
       /\ s # t
       /\ Registered(hub.channel) = {s, t}
       /\ \E data \in Data :
            /\ streams[s].queue = <<Retry, StatedFrame(data)>>
            /\ streams[t].queue = <<Retry, StatedFrame(data)>>
       /\ u \notin Registered(hub.channel)
       /\ streams[u].state = "open"
       /\ streams[u].queue = <<Retry>>

\* C18: after every subscribe, publish, stream cancel and heartbeat step the
\* channel map holds no entry whose subscriber set is empty.
C18_NoEmptyChannel ==
  \A c \in DOMAIN channels : channels[c] # {}

\* The heartbeat of the last subscriber of a channel found its sink failed
\* and removed it: the entry of the channel is gone, another channel's is
\* there.
C18_Witness ==
  /\ hub.op = "heartbeat"
  /\ streams[hub.stream].state = "failing"
  /\ hub.channel \notin DOMAIN channels
  /\ DOMAIN channels # {}

\* C19: no channel ever has more subscribers than
\* MAX_SUBSCRIBERS_PER_CHANNEL, and a subscribe to a channel that has that
\* many returns 503 and registers nothing.
C19_SubscriberCap ==
  /\ [](\A c \in DOMAIN channels : Cardinality(channels[c]) <= MAX_SUBSCRIBERS_PER_CHANNEL)
  /\ [][\A channel \in ChannelNames :
          (Subscribe(channel)
           /\ Cardinality(Registered(channel)) >= MAX_SUBSCRIBERS_PER_CHANNEL) =>
            /\ hub'.status = 503
            /\ channels' = channels
            /\ streams' = streams]_vars

\* A subscribe refused with 503 on a full channel, with a stream still free.
C19_Witness ==
  /\ hub.op = "subscribe"
  /\ hub.status = 503
  /\ Cardinality(Registered(hub.channel)) = MAX_SUBSCRIBERS_PER_CHANNEL
  /\ \E s \in StreamIds : streams[s].state = "unused"

\* C20: when the stream of a subscriber is cancelled the subscriber is
\* removed from its channel and receives nothing afterwards, the other
\* subscribers of the channel and the other channels stay as they are, and
\* the entry of the channel is deleted when it was the last subscriber.
C20_CancelFrame ==
  /\ [](\A s \in StreamIds :
          streams[s].state = "cancelled" =>
            /\ \A c \in DOMAIN channels : s \notin channels[c]
            /\ ~streams[s].heartbeat)
  /\ [][\A s \in StreamIds :
          /\ streams[s].state = "cancelled" => streams'[s] = streams[s]
          /\ (hub'.op = "cancel" /\ hub'.stream = s /\ Cancel(s)) =>
               /\ streams'[s].state = "cancelled"
               /\ streams'[s].queue = streams[s].queue
               /\ RegisteredAfter(streams[s].channel) = Registered(streams[s].channel) \ {s}
               /\ streams[s].channel \in DOMAIN channels'
                    <=> Registered(streams[s].channel) \ {s} # {}
               /\ OthersUntouched(streams[s].channel, {s})]_vars

\* A publish after one of two subscribers of the channel was cancelled: the
\* one that stayed got the frame, the cancelled one did not.
C20_Witness ==
  /\ hub.op = "publish"
  /\ \E s, t \in StreamIds :
       /\ streams[s].state = "cancelled"
       /\ streams[s].channel = hub.channel
       /\ streams[s].queue = <<Retry>>
       /\ Registered(hub.channel) = {t}
       /\ Len(streams[t].queue) = 2
       /\ streams[t].queue[2][1] = "data: "

\* The subscribers of a channel whose next write throws.
Throwing(channel) == {s \in Registered(channel) : ~Accepts(streams[s])}

\* C21: when publish meets subscribers whose enqueue throws, each of them is
\* off the channel when the call returns and got nothing, the entry of the
\* channel is deleted when none is left, and every other subscriber of the
\* channel has the message appended to its queue exactly once.
C21_ThrowingSubscriberRemoved ==
  [][\A channel \in ChannelNames, data \in Data :
       (/\ hub'.op = "publish" /\ hub'.channel = channel
        /\ Publish(channel, data)
        /\ Payload(data).ok
        /\ Throwing(channel) # {}) =>
         /\ RegisteredAfter(channel) = Registered(channel) \ Throwing(channel)
         /\ channel \in DOMAIN channels' <=> Registered(channel) # Throwing(channel)
         /\ \A s \in Throwing(channel) : streams'[s].queue = streams[s].queue
         /\ \A s \in Registered(channel) \ Throwing(channel) :
              /\ Len(streams'[s].queue) = Len(streams[s].queue) + 1
              /\ SubSeq(streams'[s].queue, 1, Len(streams[s].queue)) = streams[s].queue
              /\ streams'[s].queue[Len(streams'[s].queue)] = Frame(Payload(data).text)]_vars

\* A publish met a failed sink first and an open one second on the same
\* channel: the first is off the channel with only its retry line, the
\* second stayed and has the frame.
C21_Witness ==
  /\ hub.op = "publish"
  /\ \E s, t \in StreamIds :
       /\ s < t
       /\ streams[s].state = "failing"
       /\ streams[s].channel = hub.channel
       /\ ~streams[s].heartbeat
       /\ streams[s].queue = <<Retry>>
       /\ Registered(hub.channel) = {t}
       /\ streams[t].queue = <<Retry, Frame("hi")>>

\* ------------------------------------------------------------------------
\* The abandoned handler
\* ------------------------------------------------------------------------

\* C16: after the timeout has won the race the handler is not cancelled (it
\* may go on, publish to a channel whose subscribers get the message, and
\* settle), but what it settles with never replaces or adds to the response:
\* the answer of a timed-out request stays the 504, a returned response is
\* never changed, and a settlement that comes after the race was decided
\* leaves response and stage as they are, so each request yields exactly
\* one response.
C16_LateHandlerIgnored ==
  /\ [](\A r \in Slots :
          ("timeout" \in did[r] /\ pc[r] \in {"decorate", "done"}) =>
            resp[r].status = 504)
  /\ [][\A r \in Slots :
          /\ pc[r] = "done" =>
               \/ pc'[r] = "done" /\ resp'[r] = resp[r]
               \/ pc'[r] = "idle" /\ resp'[r] = Null
          /\ (/\ race[r] = "settled" /\ handler[r] = "pending"
              /\ handler'[r] \in {"resolved", "rejected"}) =>
               resp'[r] = resp[r] /\ pc'[r] = pc[r]]_vars

\* The 504 was returned; after that the handler published to a channel, a
\* subscriber got the frame, and the handler resolved; the response is
\* still the 504.
C16_Witness ==
  /\ pc[1] = "done"
  /\ "timeout" \in did[1]
  /\ "published late" \in did[1]
  /\ handler[1] = "resolved"
  /\ resp[1].status = 504
  /\ hub.op = "publish"
  /\ \E s \in StreamIds :
       /\ s \in Registered(hub.channel)
       /\ Len(streams[s].queue) = 2
       /\ streams[s].queue[2][1] = "data: "

\* ------------------------------------------------------------------------
\* Site registry: the atomic write, the refusals, the caches
\* ------------------------------------------------------------------------

\* C22: at every instant, a crash inside saveSites and overlapping registry
\* writes included, sites.json is absent or holds a complete JSON document,
\* and no reader is handed a partially written one.
C22_NeverHalfWritten ==
  /\ fsys[SitesJson].exists => fsys[SitesJson].text.complete
  /\ \A t \in Tasks : task[t].status # "SyntaxError"

\* The document loadSites hands to the operation of task t in this step:
\* the cached one when the call is answered from the cache, the one just
\* parsed when the file had to be read.
Handed(t) ==
  IF task[t].pc = "parse" THEN task[t].seen.text.doc ELSE objs[sitesCache]

\* Task t learns in this step what loadSites returns.
LoadReturns(t) ==
  \/ /\ task[t].pc \in {"idle", "done"}
     /\ calls' = calls + 1
     /\ task'[t] # task[t]
     /\ sitesCache # 0
  \/ /\ task[t].pc = "parse"
     /\ task'[t].pc # "parse"
     /\ task[t].seen.exists
     /\ task[t].seen.text.complete

\* The operation of task t fails with `status`, and neither sites.json nor
\* the cached registry is changed by it.
Refused(t, doc, status) ==
  /\ task'[t].pc = "done"
  /\ task'[t].status = status
  /\ fsys' = fsys
  /\ sitesCache' # 0
  /\ objs'[sitesCache'] = doc

\* C23: createSite on a host the registry holds fails with "already
\* exists"; updateSite, deleteSite and updateSiteEnv on a host it does not
\* hold fail with "not found"; in each of these cases sites.json and the
\* cached registry stay as they are.
C23_Refusals ==
  [][\A t \in Tasks :
       (LoadReturns(t) /\ task'[t].op \in RegistryOps \ {"loadSites"}) =>
         /\ (task'[t].op = "createSite" /\ task'[t].host \in DOMAIN Handed(t)) =>
              Refused(t, Handed(t), "already exists")
         /\ (task'[t].op # "createSite" /\ task'[t].host \notin DOMAIN Handed(t)) =>
              Refused(t, Handed(t), "not found")]_vars

\* Task t calls `op` in this step.
Calls(t, op) ==
  /\ task[t].pc \in {"idle", "done"}
  /\ calls' = calls + 1
  /\ task'[t] # task[t]
  /\ task'[t].op = op

\* A finished loadSites that started after the last outside edit of
\* sites.json was followed by an invalidation (in development mode: after
\* the edit), no registry write having replaced the file since, returned
\* a document with the edit in it: the editor adds or removes HostAuth,
\* which no call of the process touches.
SeesEditedSites(t) ==
  (/\ task[t].op = "loadSites"
   /\ task[t].pc = "done"
   /\ task[t].expect
   /\ ~extern[SitesJson].overwritten) =>
     /\ task[t].status = "ok"
     /\ HostAuth \in DOMAIN task[t].value
          <=> HostAuth \in DOMAIN extern[SitesJson].text.doc

\* C24: in trusted mode a loadSites that finds the registry cached reads
\* nothing from disk and returns the cached table, so an outside edit of
\* sites.json stays unseen; the first read that starts after
\* invalidateSitesCache() returns the edited document.
C24_TrustedCache ==
  /\ [][\A t \in Tasks :
          (~isDev /\ sitesCache # 0 /\ Calls(t, "loadSites")) =>
            /\ task'[t].pc = "done"
            /\ task'[t].value = objs[sitesCache]
            /\ sitesCache' = sitesCache]_vars
  /\ [](~isDev => \A t \in Tasks : SeesEditedSites(t))

\* A finished getSiteConfig that started after the last outside change of
\* site.json (a new deployment, an edit) was followed by
\* clearSiteConfigCache (in development mode: after the change) returned
\* the config the change left.
SeesEditedConfig(t) ==
  (/\ task[t].op = "getSiteConfig"
   /\ task[t].pc = "done"
   /\ task[t].expect) =>
     /\ task[t].status = "ok"
     /\ ~task[t].config.isNull
     /\ task[t].config.config = extern[SiteJson].text.doc

\* C25: in development mode every loadSites that starts after an outside
\* edit of sites.json has completed returns the edited document, and every
\* getSiteConfig that starts after an outside edit of site.json returns the
\* edited config, whatever reads were in flight during the edit.
C25_DevSeesEdits ==
  isDev => \A t \in Tasks : SeesEditedSites(t) /\ SeesEditedConfig(t)

\* C26: in trusted mode a getSiteConfig that finds an entry cached (a
\* cached null included) reads nothing from disk and returns it; every
\* getSiteConfig that starts after a new deployment was activated and
\* clearSiteConfigCache was called returns the new deployment's config,
\* whatever requests were in flight during the deploy.
C26_ConfigCache ==
  /\ [][\A t \in Tasks :
          (~isDev /\ siteConfigCache.present /\ Calls(t, "getSiteConfig")) =>
            /\ task'[t].pc = "done"
            /\ task'[t].config.isNull = siteConfigCache.isNull
            /\ task'[t].config.config = siteConfigCache.config
            /\ siteConfigCache' = siteConfigCache
            /\ fsys' = fsys]_vars
  /\ [](~isDev => \A t \in Tasks : SeesEditedConfig(t))

\* ------------------------------------------------------------------------
\* Log buffers: the cap, the order, shutdown and the timers
\* ------------------------------------------------------------------------

\* No flush is under way.
FlushesOver == \A f \in Flushers : flush[f].pc \in {"idle", "returned"}

\* C27: once the flushes are over, every host's request-log list on disk has
\* at most MAX_REQUEST_LOGS entries and every deploy-log list at most
\* MAX_DEPLOY_LOGS; a list into which more entries than its cap have been
\* flushed has exactly the cap.
C27_ListAtCap ==
  FlushesOver =>
    \A kind \in Kinds, host \in LogHosts :
      LET file == logFile[kind][host]
      IN file.exists =>
           /\ file.complete
           /\ Len(file.list) <= MaxLogs(kind)
           /\ Cardinality(file.flushed) > MaxLogs(kind) => Len(file.list) = MaxLogs(kind)

\* The position of entry e in list, 0 when it is not there.
PositionIn(list, e) ==
  IF \E i \in 1..Len(list) : list[i] = e
  THEN CHOOSE i \in 1..Len(list) : list[i] = e
  ELSE 0

\* The entries logged so far in buffer kind for host.
LoggedFor(kind, host) ==
  {e \in 1..Len(logged) : logged[e].kind = kind /\ logged[e].host = host}

\* C28: once the flushes are over and a buffer is empty, each of its hosts'
\* lists on disk holds the most recent entries, newest first: an entry logged
\* after an entry of the list is in the list too, and before it.
C28_NewestFirst ==
  \A kind \in Kinds :
    (FlushesOver /\ Size(logs[kind]) = 0) =>
      \A host \in LogHosts :
        LET list == logFile[kind][host].list
        IN \A b \in Entries(list), a \in LoggedFor(kind, host) :
             a > b => /\ PositionIn(list, a) > 0
                      /\ PositionIn(list, a) < PositionIn(list, b)

\* Entry e is in its host's list on disk, or the list holds as many newer
\* entries as the cap allows.
WrittenOut(e) ==
  LET kind == logged[e].kind
      list == logFile[kind][logged[e].host].list
  IN \/ PositionIn(list, e) > 0
     \/ Cardinality({x \in Entries(list) : x > e}) >= MaxLogs(kind)

\* C29: when shutdown() has returned, every entry logged before it was called
\* is written out, both buffers are empty and neither timer is armed.
C29_ShutdownFlushesAll ==
  flush["shutdown"].pc = "returned" =>
    /\ \A e \in 1..flush["shutdown"].before : WrittenOut(e)
    /\ \A kind \in Kinds : Size(logs[kind]) = 0 /\ flushTimer[kind] = 0
    /\ timeouts = {}

\* The timers of one buffer among the pending ones.
TimersIn(pending, kind) == {p \in pending : p.kind = kind}

\* The pending timers of one buffer.
TimersOf(kind) == TimersIn(timeouts, kind)

\* The other buffer.
OtherKind(kind) == IF kind = "request" THEN "deploy" ELSE "request"

\* A step of logRequest or logDeploy: with no timer pending for the buffer it
\* arms one that is due a FlushInterval after this entry, with one pending it
\* leaves that timer as it is; either way the other buffer's timer is left
\* alone.
LogStepArmsOnce ==
  Len(logged') > Len(logged) =>
    LET entry == Len(logged')
        kind == logged'[entry].kind
    IN /\ TimersOf(kind) = {} =>
            TimersIn(timeouts', kind) = {[handle |-> entry, kind |-> kind,
                                due |-> now + FlushInterval(kind)]}
       /\ TimersOf(kind) # {} => TimersIn(timeouts', kind) = TimersOf(kind)
       /\ TimersIn(timeouts', OtherKind(kind)) = TimersOf(OtherKind(kind))
       /\ flushTimer'[OtherKind(kind)] = flushTimer[OtherKind(kind)]

\* A timer's callback runs at the moment the timer is due and leaves the
\* other buffer's timer alone.
FireStepIsDue ==
  (logOp'.op = "fire" /\ <<timeouts, flush, logs>>' # <<timeouts, flush, logs>>) =>
    /\ \E p \in TimersOf(logOp'.kind) : p.due = now /\ p \notin timeouts'
    /\ TimersIn(timeouts', OtherKind(logOp'.kind)) = TimersOf(OtherKind(logOp'.kind))
    /\ flushTimer'[OtherKind(logOp'.kind)] = flushTimer[OtherKind(logOp'.kind)]

\* Each buffer has at most one pending timer; it is the one the buffer's
\* variable holds and it is due a FlushInterval after the entry that armed it.
OneTimerPerBuffer ==
  \A kind \in Kinds :
    /\ Cardinality(TimersOf(kind)) <= 1
    /\ \A p \in TimersOf(kind) :
         /\ flushTimer[kind] = p.handle
         /\ logged[p.handle].kind = kind
         /\ p.due = logged[p.handle].at + FlushInterval(kind)
    /\ flushTimer[kind] # 0 => TimersOf(kind) # {}

\* C30: at most one flush timer is armed per buffer; the first entry buffered
\* while none is armed arms it, and it fires REQUEST_FLUSH_INTERVAL
\* (DEPLOY_FLUSH_INTERVAL) after that entry; later entries arm no second timer
\* and do not postpone the pending one; the two timers do not touch each
\* other.
C30_OneTimerFixedDelay ==
  /\ []OneTimerPerBuffer
  /\ [][LogStepArmsOnce /\ FireStepIsDue]_vars

\* The request timer fires 10 s after the first request entry although a
\* second request entry was buffered 5 s after the first, when the deploy
\* timer fired.
C30_Witness ==
  /\ logOp.op = "fire"
  /\ logOp.kind = "request"
  /\ now = REQUEST_FLUSH_INTERVAL
  /\ Len(logged) >= 2
  /\ logged[1].kind = "request"
  /\ logged[1].at = 0
  /\ \E e \in 2..Len(logged) :
       logged[e].kind = "request" /\ logged[e].at = DEPLOY_FLUSH_INTERVAL
  /\ flushTimer["request"] = 0

\* ------------------------------------------------------------------------
\* The route cache of findFunctionFile
\* ------------------------------------------------------------------------

\* What findFunctionFileUncached finds for a request path in the tree as it
\* is now.
FreshRoute(reqPath) ==
  findFunctionFileUncached(files, Root, FunctionsDir, reqPath,
                           CHOOSE order \in ScanOrders : TRUE)

\* A call made outside development mode for a cached key returns the cached
\* result, null included, whatever the tree holds by now.
HitReturnsCached ==
  \A t \in Tasks :
    LET key == CacheKey(FunctionsDir, lookup'[t].reqPath)
    IN (/\ ~isDev
        /\ pathOp'.calls = pathOp.calls + 1
        /\ lookup'[t] # lookup[t]
        /\ key \in DOMAIN functionPathCache)
       => /\ lookup'[t].pc = "done"
          /\ lookup'[t].result = functionPathCache[key]

\* A call made in development mode, or made after clearFunctionCache has
\* followed the last deployment, returns what the tree holds.
FreshWhenDue ==
  \A t \in Tasks :
    (lookup[t].pc = "done" /\ lookup[t].expect)
      => lookup[t].result = FreshRoute(lookup[t].reqPath)

\* C31: outside development mode the resolution of a (functionsDir, path)
\* pair, "no match" included, is computed once and reused whatever happens
\* to the tree until clearFunctionCache removes it, after which the next
\* request resolves afresh; in development mode every request resolves
\* afresh.
C31_RouteCache == []FreshWhenDue /\ [][HitReturnsCached]_vars

\* ------------------------------------------------------------------------
\* The registry under overlapping calls
\* ------------------------------------------------------------------------

\* No call into lib/sites.js is in flight.
RegistryQuiet == \A t \in Tasks : task[t].pc \in {"idle", "done"}

\* C32: whenever no registry operation is in flight and sites.json was not
\* edited from outside, a populated cache holds the registry sites.json
\* holds, also when a loadSites that began reading before a saveSites ends
\* after it.
C32_CacheNotOlderThanFile ==
  (RegistryQuiet /\ extern[SitesJson].edits = 0 /\ sitesCache # 0)
    => /\ fsys[SitesJson].exists
       /\ fsys[SitesJson].text = Written(objs[sitesCache])

\* The registry sites.json holds.
OnDisk(fs) == IF fs[SitesJson].exists THEN fs[SitesJson].text.doc ELSE EmptyDoc

\* sites.json holds a whole JSON text.
Whole(fs) == fs[SitesJson].exists /\ fs[SitesJson].text.complete

\* What a successful createSite, updateSite or updateSiteEnv leaves in the
\* registry for its host; none of the three undoes what another has left.
Effect(op, host, doc) ==
  /\ HasSite(doc, host)
  /\ op = "updateSite" => ~doc[host].enabled
  /\ op = "updateSiteEnv" => doc[host].env = GoodEnv

\* A write that returns without error has its effect in sites.json.
ReturnedTookEffect ==
  \A t \in Tasks :
    (task[t].pc = "saved" /\ task'[t].pc = "done" /\ Whole(fsys'))
      => Effect(task[t].op, task[t].host, OnDisk(fsys'))

\* What one write has left in sites.json no other write takes away.
NoWriteLost ==
  \A op \in WriteOps, host \in WriteHosts :
    (Whole(fsys) /\ Whole(fsys') /\ Effect(op, host, OnDisk(fsys)))
      => Effect(op, host, OnDisk(fsys'))

\* A write that ends in an error of saveSites has not left its text in
\* sites.json (no other call was given the same operation and host).
FailedLeftNothing ==
  \A t \in Tasks :
    (/\ task[t].pc = "rename"
     /\ task'[t].pc = "done"
     /\ task'[t].status = "ENOENT"
     /\ \A u \in Tasks \ {t} : <<task[u].op, task[u].host>> # <<task[t].op, task[t].host>>)
      => ~(fsys'[SitesJson].exists /\ fsys'[SitesJson].text = task[t].text)

\* No two createSite calls for one host have both returned without error:
\* no operation here takes a site out of the registry, so the second of two
\* calls made one after the other is refused.
CreateOnce ==
  \A t, u \in Tasks :
    (/\ t # u
     /\ task[t].op = "createSite" /\ task[u].op = "createSite"
     /\ task[t].host = task[u].host
     /\ task[t].pc = "done" /\ task[u].pc = "done")
      => ~(task[t].status = "ok" /\ task[u].status = "ok")

\* C33: overlapping registry writes are serializable: sites.json ends as
\* some one-after-another order of the successful writes leaves it, no
\* successful write is lost, no write that took effect reports an error,
\* and two overlapping createSite calls for one host do not both succeed.
C33_WritesSerializable ==
  []CreateOnce /\ [][ReturnedTookEffect /\ NoWriteLost /\ FailedLeftNothing]_vars

\* ------------------------------------------------------------------------
\* A save that fails
\* ------------------------------------------------------------------------

\* The registry a getSiteByHost that is called now works on: the cached
\* object outside development mode, else what sites.json holds.
Visible(cache, heap, fs) == IF cache # 0 THEN heap[cache] ELSE OnDisk(fs)

\* C34: when saveSites fails inside createSite, updateSite, deleteSite or
\* updateSiteEnv, the error is reported and the registry is as it was
\* before the call: getSiteByHost returns for every host what it returned
\* before.
C34_FailedSaveChangesNothing ==
  [][\A t \in Tasks :
       (task[t].pc \in {"open", "write", "rename"} /\ task'[t].pc = "done")
         => /\ task'[t].status = "EIO"
            /\ \A host \in WriteHosts :
                 getSiteByHost(Visible(sitesCache', objs', fsys'), host)
                   = getSiteByHost(task[t].before, host)]_vars

\* ------------------------------------------------------------------------
\* Log entries: none lost, none twice
\* ------------------------------------------------------------------------

\* Entry e is in its buffer.
Buffered(e) ==
  LET map == logs[logged[e].kind]
  IN \E i \in 1..Len(map) : map[i].live /\ e \in Entries(map[i].entries)

\* Entry e has been written to its host's list by some flush.
Flushed(e) == e \in logFile[logged[e].kind][logged[e].host].flushed

\* C35: no buffered log entry is lost: once the flushes are over an entry
\* that was logged is still in its buffer or has been written to its host's
\* list, also when it was appended while a flush was under way and when a
\* flush has failed.
C35_NoEntryLost ==
  FlushesOver => \A e \in 1..Len(logged) : Buffered(e) \/ Flushed(e)

\* C36: no log entry is written to a host's list more than once, also when
\* shutdown() is called during a timer's flush and when a flush that failed
\* part-way is tried again.
C36_NoEntryTwice ==
  \A kind \in Kinds, host \in LogHosts :
    LET list == logFile[kind][host].list
    IN \A i, j \in 1..Len(list) : list[i] = list[j] => i = j

\* ------------------------------------------------------------------------
\* Blocked files
\* ------------------------------------------------------------------------

\* The file a static response serves, as a path inside the deployment.
ServedFile(r) == Slice(resp[r].file, Len(Root))

\* C37: serveStatic never serves a blocked file: the file path.join has
\* resolved the request path to matches no blocked pattern, for every path
\* the router passes in, those with repeated slashes included.
C37_NeverServesBlocked ==
  (pc[1] = "done" /\ "static" \in did[1] /\ resp[1] # Null)
    => ~isBlockedPath(ServedFile(1))

\* ------------------------------------------------------------------------
\* Passwords with a colon
\* ------------------------------------------------------------------------

\* C38: checkBasicAuth accepts every correct credential: when the header
\* carries the configured username and the password the stored hash was
\* made of, it returns null, whatever characters the password holds, a
\* colon included.
C38_AcceptsCorrect ==
  \A r \in Slots :
    (pc[r] = "done" /\ "auth" \in did[r]) =>
      LET env == sites[req[r].host].env
      IN req[r].authorization = BasicAuthorization(Credentials(env.user, env.hash.of))
           => resp[r] = Null

\* The answer of activation r has gone out and is not the stream its
\* handler was given: a 504, a 500, or whatever else the handler returned.
Discarded(r) == pc[r] = "done" /\ ~Streaming(r)

\* C39: every registered subscriber belongs to a streaming response that was
\* returned to a client: once the answer of an activation has gone out
\* without the stream its handler subscribed with (timeout 504, handler
\* error, another return value), that subscriber is in no channel's set, so
\* it does not count against the cap, and its heartbeat timer is stopped.
C39_DiscardedUnsubscribed ==
  \A r \in Slots : \A s \in StreamsOf(r) :
    Discarded(r) =>
      /\ s \notin SubscribersOf(channels, streams[s].channel)
      /\ ~streams[s].heartbeat

\* Subscriber s is in the set of the channel it subscribed to.
InItsChannel(s) == s \in SubscribersOf(channels, streams[s].channel)

\* C40: the heartbeat timer of a subscriber is armed exactly while the
\* subscriber is in its channel's set, and a subscriber is in no other
\* set: a client cancel, a failed publish write and a failed heartbeat write
\* each stop the timer as they remove it, so no timer is left firing for a
\* subscriber that is in no channel.
C40_TimerWhileRegistered ==
  \A s \in StreamIds :
    /\ streams[s].heartbeat <=> InItsChannel(s)
    /\ \A c \in DOMAIN channels : s \in channels[c] => c = streams[s].channel

\* One subscriber was removed by its client's cancel, another by the
\* heartbeat write that has just failed, both with their timers stopped,
\* and a third is still registered with its timer armed.
C40_Witness ==
  \E a, b, c \in StreamIds :
    /\ streams[a].state = "cancelled" /\ ~streams[a].heartbeat /\ ~InItsChannel(a)
    /\ hub.op = "heartbeat" /\ hub.stream = b
    /\ streams[b].state = "failing" /\ ~streams[b].heartbeat /\ ~InItsChannel(b)
    /\ streams[c].state = "open" /\ streams[c].heartbeat /\ InItsChannel(c)

====
